---- MODULE Spec2Model ----
(***************************************************************************)
(* Pharma supply-chain chaincode (test-network/chaincodeV2/pharma.go) on   *)
(* a Hyperledger Fabric ledger: strips are sealed into boxes, boxes into   *)
(* cartons, cartons into shipments, shipments are claimed by orders.       *)
(*                                                                         *)
(* Ledger values are JSON documents.  A document is modelled as a TLA+     *)
(* record whose domain is the set of JSON field names it carries; decoding *)
(* a document into a Go struct keeps the struct's fields that are present  *)
(* and zeroes the others, and encoding writes exactly the struct's fields. *)
(* Ids are opaque strings; "" is the empty id.  Transaction ids are the    *)
(* positive integers in proposal order (0 stands for the empty string of   *)
(* creationTxId), and the transaction timestamp is the same integer (0 is  *)
(* the zero time.Time).                                                    *)
(***************************************************************************)
EXTENDS Integers, Sequences, FiniteSets, TLC

\* ------------------------------------------------------------------ bounds
MaxTx == 3
MaxTxDeep == 4
MaxLen == 2
NumKeys == 4
MaxPending == 2
MaxLenConc == 1
MaxHist == 2

KeyNames == <<"k1", "k2", "k3", "k4", "k5", "k6">>
Keys == {KeyNames[i] : i \in 1..NumKeys}

\* ------------------------------------------------------- program constants
DocTypeStrip == "strip"
DocTypeBox == "box"
DocTypeCarton == "carton"
DocTypeShipment == "shipment"
DocTypeOrder == "order"

StatusCreated == "CREATED"
StatusSealed == "SEALED"
StatusInOrder == "IN_ORDER"
StatusDispatched == "DISPATCHED"
StatusShipped == "SHIPPED"
StatusDelivered == "DELIVERED"

\* JSON field names of the five structs
Strip == {"docType", "id", "batchNumber", "medicineType", "mfgDate", "expDate",
          "status", "boxId", "creationTxId", "createdAt", "updatedAt"}
Box == {"docType", "id", "strips", "cartonId", "status", "creationTxId",
        "createdAt", "updatedAt"}
Carton == {"docType", "id", "boxes", "shipmentId", "status", "creationTxId",
           "createdAt", "updatedAt"}
Shipment == {"docType", "id", "cartons", "orderId", "status", "distributor",
             "distributedAt", "creationTxId", "createdAt", "updatedAt"}
Order == {"docType", "id", "itemType", "itemIds", "senderId", "senderOrg",
          "receiverId", "receiverOrg", "recipient", "status", "dispatchedAt",
          "deliveredAt", "creationTxId", "createdAt", "updatedAt"}

ListFields == {"strips", "boxes", "cartons", "itemIds"}
NumFields == {"creationTxId", "createdAt", "updatedAt", "distributedAt",
              "dispatchedAt", "deliveredAt"}

\* Go zero value of a struct field
Zero(f) == IF f \in ListFields THEN <<>> ELSE IF f \in NumFields THEN 0 ELSE ""

\* json.Unmarshal(doc, &struct): fields of the struct present in the document
\* are taken, unknown fields are dropped, missing ones keep the zero value.
\* json.Marshal(struct) then writes exactly the struct's fields.
Unmarshal(doc, fields) ==
    [f \in fields |-> IF f \in DOMAIN doc THEN doc[f] ELSE Zero(f)]

\* rawItem["f"].(string) / .([]interface{}) on a decoded map: zero if absent
Field(doc, f) == IF f \in DOMAIN doc THEN doc[f] ELSE Zero(f)

\* ------------------------------------------------------------------- state
VARIABLES
    world,      \* world state: key -> latest document (partial map)
    hist,       \* per-key history, oldest first: <<[txId, isDelete, value]>>
    txCount,    \* number of transaction proposals made so far
    pending,    \* endorsed, not yet ordered transactions
    status,     \* every submitted transaction: the call, the versions it
                \* read, and the validation code it got at commit
    reply       \* the last evaluated (read-only) call and what it returned

vars == <<world, hist, txCount, pending, status, reply>>

\* ----------------------------------------------------- simulation results
NoErr == [kind |-> "", id |-> "", parent |-> ""]
Err(kind, id, parent) == [kind |-> kind, id |-> id, parent |-> parent]

NoWrites == [k \in {} |-> 0]
Put(writes, k, v) ==
    [x \in DOMAIN writes \cup {k} |-> IF x = k THEN v ELSE writes[x]]

Fail(e, reads) == [ok |-> FALSE, err |-> e, writes |-> NoWrites, reads |-> reads]
Done(writes, reads) == [ok |-> TRUE, err |-> NoErr, writes |-> writes, reads |-> reads]

\* the id-list argument: a JSON text that either parses to an array of
\* strings or does not parse
Parsed(ids) == [ok |-> TRUE, ids |-> ids]
BadJSON == [ok |-> FALSE, ids |-> <<>>]

\* variant that looks for the id among the strips only
assetExistsAsStrip(w, id) == id \in DOMAIN w /\ w[id]["docType"] = DocTypeStrip

assetExists(w, id) == id \in DOMAIN w

\* ------------------------------------------------------------- CreateStrip
\* variant whose existence test leaves no read of the id
CreateStripUnread(w, tx, id) ==
    IF assetExists(w, id) THEN Fail(Err("AlreadyExists", id, ""), {})
    ELSE Done(Put(NoWrites, id,
                  [docType |-> DocTypeStrip, id |-> id, batchNumber |-> "B",
                   medicineType |-> "M", mfgDate |-> "D1", expDate |-> "D2",
                   status |-> StatusCreated, boxId |-> "",
                   creationTxId |-> tx, createdAt |-> tx, updatedAt |-> tx]),
              {})

CreateStrip(w, tx, id) ==
    IF assetExists(w, id) THEN Fail(Err("AlreadyExists", id, ""), {id})
    ELSE Done(Put(NoWrites, id,
                  [docType |-> DocTypeStrip, id |-> id, batchNumber |-> "B",
                   medicineType |-> "M", mfgDate |-> "D1", expDate |-> "D2",
                   status |-> StatusCreated, boxId |-> "",
                   creationTxId |-> tx, createdAt |-> tx, updatedAt |-> tx]),
              {id})

\* ------------------------------------------------------------ seal loops
\* The "validate and update each child" loop shared by SealBox, SealCarton
\* and SealShipment: GetState reads the committed world state (never the
\* writes buffered by this transaction), decodes into the child struct,
\* rejects a child whose owning-parent field is set, and buffers the update.
\* variant that forgets to advance the child's status
RECURSIVE SealChildrenKeepStatus(_, _, _, _, _, _, _, _, _)
SealChildrenKeepStatus(w, tx, parentID, ids, fields, owner, i, writes, reads) ==
    IF i > Len(ids) THEN Done(writes, reads)
    ELSE LET cid == ids[i] IN
         IF cid \notin DOMAIN w
         THEN Fail(Err("NotFound", cid, ""), reads \cup {cid})
         ELSE LET child == Unmarshal(w[cid], fields) IN
              IF child[owner] # ""
              THEN Fail(Err("AlreadyAssigned", cid, child[owner]), reads \cup {cid})
              ELSE SealChildrenKeepStatus(w, tx, parentID, ids, fields, owner, i + 1,
                       Put(writes, cid,
                           [child EXCEPT ![owner] = parentID,
                                         !["updatedAt"] = tx]),
                       reads \cup {cid})

\* variant that skips a missing or assigned child instead of failing
RECURSIVE SealChildrenSkip(_, _, _, _, _, _, _, _, _)
SealChildrenSkip(w, tx, parentID, ids, fields, owner, i, writes, reads) ==
    IF i > Len(ids) THEN Done(writes, reads)
    ELSE LET cid == ids[i] IN
         IF cid \notin DOMAIN w
         THEN SealChildrenSkip(w, tx, parentID, ids, fields, owner, i + 1,
                               writes, reads \cup {cid})
         ELSE LET child == Unmarshal(w[cid], fields) IN
              IF child[owner] # ""
              THEN SealChildrenSkip(w, tx, parentID, ids, fields, owner, i + 1,
                                    writes, reads \cup {cid})
              ELSE SealChildrenSkip(w, tx, parentID, ids, fields, owner, i + 1,
                       Put(writes, cid,
                           [child EXCEPT ![owner] = parentID,
                                         !["status"] = StatusSealed,
                                         !["updatedAt"] = tx]),
                       reads \cup {cid})

\* variant that looks the child up without GetState (a rich query, whose
\* result is not part of the read set)
RECURSIVE SealChildrenUnread(_, _, _, _, _, _, _, _, _)
SealChildrenUnread(w, tx, parentID, ids, fields, owner, i, writes, reads) ==
    IF i > Len(ids) THEN Done(writes, reads)
    ELSE LET cid == ids[i] IN
         IF cid \notin DOMAIN w
         THEN Fail(Err("NotFound", cid, ""), reads)
         ELSE LET child == Unmarshal(w[cid], fields) IN
              IF child[owner] # ""
              THEN Fail(Err("AlreadyAssigned", cid, child[owner]), reads)
              ELSE SealChildrenUnread(w, tx, parentID, ids, fields, owner, i + 1,
                       Put(writes, cid,
                           [child EXCEPT ![owner] = parentID,
                                         !["status"] = StatusSealed,
                                         !["updatedAt"] = tx]),
                       reads)

RECURSIVE SealChildren(_, _, _, _, _, _, _, _, _)
SealChildren(w, tx, parentID, ids, fields, owner, i, writes, reads) ==
    IF i > Len(ids) THEN Done(writes, reads)
    ELSE LET cid == ids[i] IN
         IF cid \notin DOMAIN w
         THEN Fail(Err("NotFound", cid, ""), reads \cup {cid})
         ELSE LET child == Unmarshal(w[cid], fields) IN
              IF child[owner] # ""
              THEN Fail(Err("AlreadyAssigned", cid, child[owner]), reads \cup {cid})
              ELSE SealChildren(w, tx, parentID, ids, fields, owner, i + 1,
                       Put(writes, cid,
                           [child EXCEPT ![owner] = parentID,
                                         !["status"] = StatusSealed,
                                         !["updatedAt"] = tx]),
                       reads \cup {cid})

SealBox(w, tx, boxID, arg) ==
    IF assetExists(w, boxID) THEN Fail(Err("AlreadyExists", boxID, ""), {boxID})
    ELSE IF ~arg.ok THEN Fail(Err("InvalidInput", boxID, ""), {boxID})
    ELSE LET r == SealChildren(w, tx, boxID, arg.ids, Strip, "boxId", 1,
                               NoWrites, {boxID}) IN
         IF ~r.ok THEN r
         ELSE Done(Put(r.writes, boxID,
                       [docType |-> DocTypeBox, id |-> boxID, strips |-> arg.ids,
                        cartonId |-> "", status |-> StatusCreated,
                        creationTxId |-> tx, createdAt |-> tx, updatedAt |-> tx]),
                   r.reads)

SealCarton(w, tx, cartonID, arg) ==
    IF assetExists(w, cartonID) THEN Fail(Err("AlreadyExists", cartonID, ""), {cartonID})
    ELSE IF ~arg.ok THEN Fail(Err("InvalidInput", cartonID, ""), {cartonID})
    ELSE LET r == SealChildren(w, tx, cartonID, arg.ids, Box, "cartonId", 1,
                               NoWrites, {cartonID}) IN
         IF ~r.ok THEN r
         ELSE Done(Put(r.writes, cartonID,
                       [docType |-> DocTypeCarton, id |-> cartonID, boxes |-> arg.ids,
                        shipmentId |-> "", status |-> StatusCreated,
                        creationTxId |-> tx, createdAt |-> tx, updatedAt |-> tx]),
                   r.reads)

SealShipment(w, tx, shipmentID, arg) ==
    IF assetExists(w, shipmentID) THEN Fail(Err("AlreadyExists", shipmentID, ""), {shipmentID})
    ELSE IF ~arg.ok THEN Fail(Err("InvalidInput", shipmentID, ""), {shipmentID})
    ELSE LET r == SealChildren(w, tx, shipmentID, arg.ids, Carton, "shipmentId", 1,
                               NoWrites, {shipmentID}) IN
         IF ~r.ok THEN r
         ELSE Done(Put(r.writes, shipmentID,
                       [docType |-> DocTypeShipment, id |-> shipmentID,
                        cartons |-> arg.ids, orderId |-> "",
                        status |-> StatusCreated, distributor |-> "",
                        distributedAt |-> 0,
                        creationTxId |-> tx, createdAt |-> tx, updatedAt |-> tx]),
                   r.reads)

\* ------------------------------------------------------ DistributeShipment
\* variant that writes the shipment as in no order
DistributeShipmentUnordered(w, tx, shipmentID, distributor) ==
    IF shipmentID \notin DOMAIN w
    THEN Fail(Err("NotFound", shipmentID, ""), {shipmentID})
    ELSE LET shipment == Unmarshal(w[shipmentID], Shipment) IN
         Done(Put(NoWrites, shipmentID,
                  [shipment EXCEPT !["orderId"] = "",
                                   !["status"] = StatusShipped,
                                   !["distributor"] = distributor,
                                   !["distributedAt"] = tx,
                                   !["updatedAt"] = tx]),
              {shipmentID})

\* variant that tags what it writes as a shipment
DistributeShipmentRetag(w, tx, shipmentID, distributor) ==
    IF shipmentID \notin DOMAIN w
    THEN Fail(Err("NotFound", shipmentID, ""), {shipmentID})
    ELSE LET shipment == Unmarshal(w[shipmentID], Shipment) IN
         Done(Put(NoWrites, shipmentID,
                  [shipment EXCEPT !["docType"] = DocTypeShipment,
                                   !["status"] = StatusShipped,
                                   !["distributor"] = distributor,
                                   !["distributedAt"] = tx,
                                   !["updatedAt"] = tx]),
              {shipmentID})

DistributeShipment(w, tx, shipmentID, distributor) ==
    IF shipmentID \notin DOMAIN w
    THEN Fail(Err("NotFound", shipmentID, ""), {shipmentID})
    ELSE LET shipment == Unmarshal(w[shipmentID], Shipment) IN
         Done(Put(NoWrites, shipmentID,
                  [shipment EXCEPT !["status"] = StatusShipped,
                                   !["distributor"] = distributor,
                                   !["distributedAt"] = tx,
                                   !["updatedAt"] = tx]),
              {shipmentID})

\* ------------------------------------------------------------- CreateOrder
\* fmt.Sprintf("%s (%s)", receiverId, receiverOrg)
Recipient(receiverId, receiverOrg) == receiverId \o " (" \o receiverOrg \o ")"

\* The "validate all items are shipments" loop of CreateOrder: every listed
\* id must resolve and carry docType "shipment"; the shipment's orderId is
\* overwritten without looking at its previous value.
\* variant that records the order on the shipment but leaves its status
RECURSIVE OrderItemsKeepStatus(_, _, _, _, _, _, _)
OrderItemsKeepStatus(w, tx, orderID, ids, i, writes, reads) ==
    IF i > Len(ids) THEN Done(writes, reads)
    ELSE LET itemID == ids[i] IN
         IF itemID \notin DOMAIN w
         THEN Fail(Err("NotFound", itemID, ""), reads \cup {itemID})
         ELSE LET shipment == Unmarshal(w[itemID], Shipment) IN
              IF shipment["docType"] # DocTypeShipment
              THEN Fail(Err("NotAShipment", itemID, ""), reads \cup {itemID})
              ELSE OrderItemsKeepStatus(w, tx, orderID, ids, i + 1,
                       Put(writes, itemID,
                           [shipment EXCEPT !["orderId"] = orderID,
                                            !["updatedAt"] = tx]),
                       reads \cup {itemID})

\* variant without the "verify it's a shipment" test
RECURSIVE OrderItemsAnyKind(_, _, _, _, _, _, _)
OrderItemsAnyKind(w, tx, orderID, ids, i, writes, reads) ==
    IF i > Len(ids) THEN Done(writes, reads)
    ELSE LET itemID == ids[i] IN
         IF itemID \notin DOMAIN w
         THEN Fail(Err("NotFound", itemID, ""), reads \cup {itemID})
         ELSE LET shipment == Unmarshal(w[itemID], Shipment) IN
              OrderItemsAnyKind(w, tx, orderID, ids, i + 1,
                  Put(writes, itemID,
                      [shipment EXCEPT !["orderId"] = orderID,
                                       !["status"] = StatusInOrder,
                                       !["updatedAt"] = tx]),
                  reads \cup {itemID})

RECURSIVE OrderItems(_, _, _, _, _, _, _)
OrderItems(w, tx, orderID, ids, i, writes, reads) ==
    IF i > Len(ids) THEN Done(writes, reads)
    ELSE LET itemID == ids[i] IN
         IF itemID \notin DOMAIN w
         THEN Fail(Err("NotFound", itemID, ""), reads \cup {itemID})
         ELSE LET shipment == Unmarshal(w[itemID], Shipment) IN
              IF shipment["docType"] # DocTypeShipment
              THEN Fail(Err("NotAShipment", itemID, ""), reads \cup {itemID})
              ELSE OrderItems(w, tx, orderID, ids, i + 1,
                       Put(writes, itemID,
                           [shipment EXCEPT !["orderId"] = orderID,
                                            !["status"] = StatusInOrder,
                                            !["updatedAt"] = tx]),
                       reads \cup {itemID})

CreateOrder(w, tx, orderID, arg, senderId, senderOrg, receiverId, receiverOrg) ==
    IF assetExists(w, orderID) THEN Fail(Err("AlreadyExists", orderID, ""), {orderID})
    ELSE IF ~arg.ok THEN Fail(Err("InvalidInput", orderID, ""), {orderID})
    ELSE IF Len(arg.ids) = 0 THEN Fail(Err("InvalidInput", orderID, ""), {orderID})
    ELSE LET r == OrderItems(w, tx, orderID, arg.ids, 1, NoWrites, {orderID}) IN
         IF ~r.ok THEN r
         ELSE Done(Put(r.writes, orderID,
                       [docType |-> DocTypeOrder, id |-> orderID,
                        itemType |-> "shipment", itemIds |-> arg.ids,
                        senderId |-> senderId, senderOrg |-> senderOrg,
                        receiverId |-> receiverId, receiverOrg |-> receiverOrg,
                        recipient |-> Recipient(receiverId, receiverOrg),
                        status |-> StatusCreated,
                        dispatchedAt |-> 0, deliveredAt |-> 0,
                        creationTxId |-> tx, createdAt |-> tx, updatedAt |-> tx]),
                   r.reads)

\* ----------------------------------------------- DispatchOrder, DeliverOrder
\* variant that refuses an order that is already dispatched
DispatchOrderOnce(w, tx, orderID) ==
    IF orderID \notin DOMAIN w
    THEN Fail(Err("NotFound", orderID, ""), {orderID})
    ELSE LET order == Unmarshal(w[orderID], Order) IN
         IF order["status"] = StatusDispatched
         THEN Fail(Err("InvalidState", orderID, ""), {orderID})
         ELSE Done(Put(NoWrites, orderID,
                       [order EXCEPT !["status"] = StatusDispatched,
                                     !["dispatchedAt"] = tx,
                                     !["updatedAt"] = tx]),
                   {orderID})

\* variant that stamps the dispatching transaction as the creating one
DispatchOrderRestamp(w, tx, orderID) ==
    IF orderID \notin DOMAIN w
    THEN Fail(Err("NotFound", orderID, ""), {orderID})
    ELSE LET order == Unmarshal(w[orderID], Order) IN
         Done(Put(NoWrites, orderID,
                  [order EXCEPT !["status"] = StatusDispatched,
                                !["creationTxId"] = tx,
                                !["dispatchedAt"] = tx,
                                !["updatedAt"] = tx]),
              {orderID})

DispatchOrder(w, tx, orderID) ==
    IF orderID \notin DOMAIN w
    THEN Fail(Err("NotFound", orderID, ""), {orderID})
    ELSE LET order == Unmarshal(w[orderID], Order) IN
         Done(Put(NoWrites, orderID,
                  [order EXCEPT !["status"] = StatusDispatched,
                                !["dispatchedAt"] = tx,
                                !["updatedAt"] = tx]),
              {orderID})

\* variant that writes the status of DispatchOrder
DeliverOrderAsDispatched(w, tx, orderID) ==
    IF orderID \notin DOMAIN w
    THEN Fail(Err("NotFound", orderID, ""), {orderID})
    ELSE LET order == Unmarshal(w[orderID], Order) IN
         Done(Put(NoWrites, orderID,
                  [order EXCEPT !["status"] = StatusDispatched,
                                !["deliveredAt"] = tx,
                                !["updatedAt"] = tx]),
              {orderID})

\* variant that refuses an order that was not dispatched
DeliverOrderGuarded(w, tx, orderID) ==
    IF orderID \notin DOMAIN w
    THEN Fail(Err("NotFound", orderID, ""), {orderID})
    ELSE LET order == Unmarshal(w[orderID], Order) IN
         IF order["status"] # StatusDispatched
         THEN Fail(Err("InvalidState", orderID, ""), {orderID})
         ELSE Done(Put(NoWrites, orderID,
                       [order EXCEPT !["status"] = StatusDelivered,
                                     !["deliveredAt"] = tx,
                                     !["updatedAt"] = tx]),
                   {orderID})

DeliverOrder(w, tx, orderID) ==
    IF orderID \notin DOMAIN w
    THEN Fail(Err("NotFound", orderID, ""), {orderID})
    ELSE LET order == Unmarshal(w[orderID], Order) IN
         Done(Put(NoWrites, orderID,
                  [order EXCEPT !["status"] = StatusDelivered,
                                !["deliveredAt"] = tx,
                                !["updatedAt"] = tx]),
              {orderID})

\* ------------------------------------------------------------- ScanBarcode
\* a nil interface value of TraceResult (Children, a list, is empty when nil)
Nil == [nil |-> TRUE]

\* variant that stops at the box
getStripParentsBoxOnly(w, strip) ==
    IF strip["boxId"] = "" THEN <<Nil, Nil, Nil>>
    ELSE IF strip["boxId"] \notin DOMAIN w THEN <<Nil, Nil, Nil>>
    ELSE <<Unmarshal(w[strip["boxId"]], Box), Nil, Nil>>

getStripParents(w, strip) ==
    IF strip["boxId"] = "" THEN <<Nil, Nil, Nil>>
    ELSE IF strip["boxId"] \notin DOMAIN w THEN <<Nil, Nil, Nil>>
    ELSE LET box == Unmarshal(w[strip["boxId"]], Box) IN
         IF box["cartonId"] = "" THEN <<box, Nil, Nil>>
         ELSE IF box["cartonId"] \notin DOMAIN w THEN <<box, Nil, Nil>>
         ELSE LET carton == Unmarshal(w[box["cartonId"]], Carton) IN
              IF carton["shipmentId"] = "" THEN <<box, carton, Nil>>
              ELSE IF carton["shipmentId"] \notin DOMAIN w THEN <<box, carton, Nil>>
              ELSE <<box, carton, Unmarshal(w[carton["shipmentId"]], Shipment)>>

getBoxParents(w, box) ==
    IF box["cartonId"] = "" THEN <<Nil, Nil>>
    ELSE IF box["cartonId"] \notin DOMAIN w THEN <<Nil, Nil>>
    ELSE LET carton == Unmarshal(w[box["cartonId"]], Carton) IN
         IF carton["shipmentId"] = "" THEN <<carton, Nil>>
         ELSE IF carton["shipmentId"] \notin DOMAIN w THEN <<carton, Nil>>
         ELSE <<carton, Unmarshal(w[carton["shipmentId"]], Shipment)>>

getCartonParent(w, carton) ==
    IF carton["shipmentId"] = "" THEN Nil
    ELSE IF carton["shipmentId"] \notin DOMAIN w THEN Nil
    ELSE Unmarshal(w[carton["shipmentId"]], Shipment)

\* the loops of getBoxStrips, getCartonBoxes and getShipmentCartons: every
\* listed id that resolves is decoded and appended, the others are skipped
\* variant that stops at the first listed id that does not resolve
RECURSIVE FetchStop(_, _, _, _)
FetchStop(w, ids, fields, i) ==
    IF i > Len(ids) \/ ids[i] \notin DOMAIN w THEN <<>>
    ELSE <<Unmarshal(w[ids[i]], fields)>> \o FetchStop(w, ids, fields, i + 1)

RECURSIVE Fetch(_, _, _, _)
Fetch(w, ids, fields, i) ==
    IF i > Len(ids) THEN <<>>
    ELSE IF ids[i] \in DOMAIN w
         THEN <<Unmarshal(w[ids[i]], fields)>> \o Fetch(w, ids, fields, i + 1)
         ELSE Fetch(w, ids, fields, i + 1)
getBoxStrips(w, box) == Fetch(w, box["strips"], Strip, 1)
getCartonBoxes(w, carton) == Fetch(w, carton["boxes"], Box, 1)
getShipmentCartons(w, shipment) == Fetch(w, shipment["cartons"], Carton, 1)
\* getOrderItems decodes into a map: the items keep every field they have
RECURSIVE getOrderItemsFrom(_, _, _)
getOrderItemsFrom(w, ids, i) ==
    IF i > Len(ids) THEN <<>>
    ELSE IF ids[i] \in DOMAIN w
         THEN <<w[ids[i]]>> \o getOrderItemsFrom(w, ids, i + 1)
         ELSE getOrderItemsFrom(w, ids, i + 1)
getOrderItems(w, order) == getOrderItemsFrom(w, order["itemIds"], 1)

TraceResult(itemType, item, parents, children) ==
    [ok |-> TRUE, itemType |-> itemType, item |-> item, parent |-> parents[1],
     grandParent |-> parents[2], root |-> parents[3], children |-> children]
ScanBarcode(w, itemID) ==
    IF itemID \notin DOMAIN w
    THEN [ok |-> FALSE, itemType |-> "", item |-> Nil, parent |-> Nil,
          grandParent |-> Nil, root |-> Nil, children |-> <<>>]
    ELSE LET docType == w[itemID]["docType"] IN
         CASE docType = DocTypeStrip ->
                LET strip == Unmarshal(w[itemID], Strip) IN
                TraceResult(docType, strip, getStripParents(w, strip), <<>>)
           [] docType = DocTypeBox ->
                LET box == Unmarshal(w[itemID], Box) IN
                TraceResult(docType, box, getBoxParents(w, box) \o <<Nil>>,
                            getBoxStrips(w, box))
           [] docType = DocTypeCarton ->
                LET carton == Unmarshal(w[itemID], Carton) IN
                TraceResult(docType, carton, <<getCartonParent(w, carton), Nil, Nil>>,
                            getCartonBoxes(w, carton))
           [] docType = DocTypeShipment ->
                LET shipment == Unmarshal(w[itemID], Shipment) IN
                TraceResult(docType, shipment, <<Nil, Nil, Nil>>,
                            getShipmentCartons(w, shipment))
           [] docType = DocTypeOrder ->
                LET order == Unmarshal(w[itemID], Order) IN
                TraceResult(docType, order, <<Nil, Nil, Nil>>, getOrderItems(w, order))
           [] OTHER -> TraceResult(docType, Nil, <<Nil, Nil, Nil>>, <<>>)

\* ------------------------------------------------- trace from the history
\* stub.GetHistoryForKey: the entries of one key, newest first (the ledger
\* keeps them in commit order)
RECURSIVE Reverse(_)
Reverse(s) ==
    IF s = <<>> THEN <<>>
    ELSE <<s[Len(s)]>> \o Reverse(SubSeq(s, 1, Len(s) - 1))
GetHistoryForKey(h, key) == Reverse(h[key])

\* the value decoded from one history record: nil for a deletion
RecordValue(record) ==
    IF record.value # Nil /\ ~record.isDelete THEN record.value ELSE Nil

\* the loop of getLatestFromBlockchain: place of the first record that
\* carries a value, 0 when there is none
RECURSIVE FirstValue(_, _)
FirstValue(records, i) ==
    IF i > Len(records) THEN 0
    ELSE IF RecordValue(records[i]) # Nil THEN i
    ELSE FirstValue(records, i + 1)

\* variant that takes the oldest record for the latest value
getLatestFromBlockchainOldest(h, itemID) ==
    LET records == GetHistoryForKey(h, itemID)
        history == [i \in 1..Len(records) |->
                       [txId |-> records[i].txId, timestamp |-> records[i].txId,
                        isDelete |-> records[i].isDelete,
                        value |-> RecordValue(records[i])]]
    IN  IF records = <<>> \/ RecordValue(records[Len(records)]) = Nil
        THEN [ok |-> FALSE, current |-> Nil, history |-> <<>>]
        ELSE [ok |-> TRUE, current |-> records[Len(records)].value,
              history |-> history]

getLatestFromBlockchain(h, itemID) ==
    LET records == GetHistoryForKey(h, itemID)
        history == [i \in 1..Len(records) |->
                       [txId |-> records[i].txId, timestamp |-> records[i].txId,
                        isDelete |-> records[i].isDelete,
                        value |-> RecordValue(records[i])]]
        first == FirstValue(records, 1)
    IN  IF first = 0
        THEN [ok |-> FALSE, current |-> Nil, history |-> <<>>]
        ELSE [ok |-> TRUE, current |-> records[first].value, history |-> history]

getBlockchainItemData(h, itemID) ==
    LET r == getLatestFromBlockchain(h, itemID) IN
    IF ~r.ok
    THEN [ok |-> FALSE, itemId |-> itemID, itemType |-> "", current |-> Nil,
          history |-> <<>>]
    ELSE [ok |-> TRUE, itemId |-> itemID, itemType |-> Field(r.current, "docType"),
          current |-> r.current, history |-> r.history]

getShipmentParentsFromBlockchain(h, shipmentData) ==
    LET orderID == Field(shipmentData, "orderId") IN
    IF orderID = "" THEN <<>>
    ELSE LET orderData == getBlockchainItemData(h, orderID) IN
         IF ~orderData.ok THEN <<>> ELSE <<orderData>>

\* from the shipment on, the carton's, box's and strip's ascents repeat the
\* statements of the one above them
getCartonParentsFromBlockchain(h, cartonData) ==
    LET shipmentID == Field(cartonData, "shipmentId") IN
    IF shipmentID = "" THEN <<>>
    ELSE LET shipmentData == getBlockchainItemData(h, shipmentID) IN
         IF ~shipmentData.ok THEN <<>>
         ELSE <<shipmentData>>
              \o getShipmentParentsFromBlockchain(h, shipmentData.current)

\* variant that stops at the carton
getBoxParentsFromBlockchainCartonOnly(h, boxData) ==
    LET cartonID == Field(boxData, "cartonId") IN
    IF cartonID = "" THEN <<>>
    ELSE LET cartonData == getBlockchainItemData(h, cartonID) IN
         IF ~cartonData.ok THEN <<>> ELSE <<cartonData>>

getBoxParentsFromBlockchain(h, boxData) ==
    LET cartonID == Field(boxData, "cartonId") IN
    IF cartonID = "" THEN <<>>
    ELSE LET cartonData == getBlockchainItemData(h, cartonID) IN
         IF ~cartonData.ok THEN <<>>
         ELSE <<cartonData>>
              \o getCartonParentsFromBlockchain(h, cartonData.current)

getStripParentsFromBlockchain(h, stripData) ==
    LET boxID == Field(stripData, "boxId") IN
    IF boxID = "" THEN <<>>
    ELSE LET boxData == getBlockchainItemData(h, boxID) IN
         IF ~boxData.ok THEN <<>>
         ELSE <<boxData>> \o getBoxParentsFromBlockchain(h, boxData.current)

\* variant that also descends into what a strip lists
RECURSIVE BoxChildrenDeeper(_, _, _)
BoxChildrenDeeper(h, ids, i) ==
    IF i > Len(ids) THEN <<>>
    ELSE LET stripData == getBlockchainItemData(h, ids[i]) IN
         IF ~stripData.ok THEN BoxChildrenDeeper(h, ids, i + 1)
         ELSE <<stripData>>
              \o [j \in 1..Len(Field(stripData.current, "strips")) |->
                     [ok |-> TRUE, itemId |-> Field(stripData.current, "strips")[j],
                      itemType |-> "", current |-> Nil, history |-> <<>>]]
              \o BoxChildrenDeeper(h, ids, i + 1)

\* the loop of getBoxChildrenFromBlockchain over the ids from place i
RECURSIVE BoxChildren(_, _, _)
BoxChildren(h, ids, i) ==
    IF i > Len(ids) THEN <<>>
    ELSE LET stripData == getBlockchainItemData(h, ids[i]) IN
         IF ~stripData.ok THEN BoxChildren(h, ids, i + 1)
         ELSE <<stripData>> \o BoxChildren(h, ids, i + 1)
getBoxChildrenFromBlockchain(h, boxData) ==
    BoxChildren(h, Field(boxData, "strips"), 1)

RECURSIVE CartonChildren(_, _, _)
CartonChildren(h, ids, i) ==
    IF i > Len(ids) THEN <<>>
    ELSE LET boxData == getBlockchainItemData(h, ids[i]) IN
         IF ~boxData.ok THEN CartonChildren(h, ids, i + 1)
         ELSE <<boxData>> \o getBoxChildrenFromBlockchain(h, boxData.current)
              \o CartonChildren(h, ids, i + 1)
getCartonChildrenFromBlockchain(h, cartonData) ==
    CartonChildren(h, Field(cartonData, "boxes"), 1)

RECURSIVE ShipmentChildren(_, _, _)
ShipmentChildren(h, ids, i) ==
    IF i > Len(ids) THEN <<>>
    ELSE LET cartonData == getBlockchainItemData(h, ids[i]) IN
         IF ~cartonData.ok THEN ShipmentChildren(h, ids, i + 1)
         ELSE <<cartonData>>
              \o getCartonChildrenFromBlockchain(h, cartonData.current)
              \o ShipmentChildren(h, ids, i + 1)
getShipmentChildrenFromBlockchain(h, shipmentData) ==
    ShipmentChildren(h, Field(shipmentData, "cartons"), 1)

\* variant that returns the order's items without what they hold
RECURSIVE OrderChildrenFlat(_, _, _)
OrderChildrenFlat(h, ids, i) ==
    IF i > Len(ids) THEN <<>>
    ELSE LET itemData == getBlockchainItemData(h, ids[i]) IN
         IF ~itemData.ok THEN OrderChildrenFlat(h, ids, i + 1)
         ELSE <<itemData>> \o OrderChildrenFlat(h, ids, i + 1)

RECURSIVE OrderChildren(_, _, _)
OrderChildren(h, ids, i) ==
    IF i > Len(ids) THEN <<>>
    ELSE LET itemData == getBlockchainItemData(h, ids[i]) IN
         IF ~itemData.ok THEN OrderChildren(h, ids, i + 1)
         ELSE <<itemData>>
              \o (IF Field(itemData.current, "docType") = DocTypeShipment
                  THEN getShipmentChildrenFromBlockchain(h, itemData.current)
                  ELSE <<>>)
              \o OrderChildren(h, ids, i + 1)
getOrderChildrenFromBlockchain(h, orderData) ==
    OrderChildren(h, Field(orderData, "itemIds"), 1)

BlockchainTraceResult(itemData, parents, children) ==
    [ok |-> TRUE, searchedItem |-> itemData, parents |-> parents,
     children |-> children]
GetFullTraceFromBlockchain(h, itemID) ==
    LET itemData == getBlockchainItemData(h, itemID)
        current == itemData.current
        docType == itemData.itemType
    IN  IF ~itemData.ok
        THEN [ok |-> FALSE, searchedItem |-> itemData, parents |-> <<>>,
              children |-> <<>>]
        ELSE CASE docType = DocTypeStrip ->
                    BlockchainTraceResult(itemData,
                        getStripParentsFromBlockchain(h, current), <<>>)
               [] docType = DocTypeBox ->
                    BlockchainTraceResult(itemData,
                        getBoxParentsFromBlockchain(h, current),
                        getBoxChildrenFromBlockchain(h, current))
               [] docType = DocTypeCarton ->
                    BlockchainTraceResult(itemData,
                        getCartonParentsFromBlockchain(h, current),
                        getCartonChildrenFromBlockchain(h, current))
               [] docType = DocTypeShipment ->
                    BlockchainTraceResult(itemData,
                        getShipmentParentsFromBlockchain(h, current),
                        getShipmentChildrenFromBlockchain(h, current))
               [] docType = DocTypeOrder ->
                    BlockchainTraceResult(itemData, <<>>,
                        getOrderChildrenFromBlockchain(h, current))
               [] OTHER -> BlockchainTraceResult(itemData, <<>>, <<>>)

\* ------------------------------------------------- queries and lookups
\* stub.GetQueryResult with an equality selector: the keys of the world
\* state, in key order, whose document has each selected field with the
\* selected value (a document without the field does not match)
Matches(doc, selector) ==
    \A f \in DOMAIN selector : f \in DOMAIN doc /\ doc[f] = selector[f]
GetQueryResult(w, selector) ==
    SelectSeq(KeyNames, LAMBDA k : k \in DOMAIN w /\ Matches(w[k], selector))

RECURSIVE Decode(_, _, _, _)
Decode(w, keys, fields, i) ==
    IF i > Len(keys) THEN <<>>
    ELSE <<Unmarshal(w[keys[i]], fields)>> \o Decode(w, keys, fields, i + 1)

queryStripsByStatus(w, boxID) ==
    Decode(w, GetQueryResult(w, [docType |-> DocTypeStrip, boxId |-> boxID]),
           Strip, 1)
GetAvailableStrips(w) == queryStripsByStatus(w, "")
GetAvailableBoxes(w) ==
    Decode(w, GetQueryResult(w, [docType |-> DocTypeBox, cartonId |-> ""]),
           Box, 1)
GetAvailableCartons(w) ==
    Decode(w, GetQueryResult(w, [docType |-> DocTypeCarton, shipmentId |-> ""]),
           Carton, 1)

\* variant that selects the shipments in no order
GetAvailableShipmentsUnordered(w) ==
    Decode(w, GetQueryResult(w, [docType |-> DocTypeShipment, orderId |-> ""]),
           Shipment, 1)
GetAvailableShipments(w) ==
    Decode(w, GetQueryResult(w, [docType |-> DocTypeShipment,
                                 status |-> StatusCreated]),
           Shipment, 1)

\* GetStatistics counts the documents of each kind with one query per kind
StatisticsKeys == <<"strips", "boxes", "cartons", "shipments", "orders">>
StatisticsDocTypes ==
    <<DocTypeStrip, DocTypeBox, DocTypeCarton, DocTypeShipment, DocTypeOrder>>
GetStatistics(w) ==
    [key \in {StatisticsKeys[j] : j \in 1..Len(StatisticsKeys)} |->
        LET i == CHOOSE j \in 1..Len(StatisticsKeys) : StatisticsKeys[j] = key
        IN  Len(GetQueryResult(w, [docType |-> StatisticsDocTypes[i]]))]

\* the loop of GetItemByCreationTxHash over the kinds from place i
RECURSIVE ItemByCreationTx(_, _, _, _)
ItemByCreationTx(w, txHash, docTypes, i) ==
    IF i > Len(docTypes) THEN [ok |-> FALSE, item |-> Nil]
    ELSE LET results == GetQueryResult(w, [docType |-> docTypes[i],
                                           creationTxId |-> txHash])
         IN  IF results # <<>> THEN [ok |-> TRUE, item |-> w[results[1]]]
             ELSE ItemByCreationTx(w, txHash, docTypes, i + 1)

\* variant that takes the first entity the transaction wrote
GetItemByCreationTxHashAnyWrite(w, txHash) ==
    LET results == SelectSeq(KeyNames, LAMBDA k :
                       k \in DOMAIN w /\ Field(w[k], "updatedAt") = txHash)
    IN  IF results # <<>> THEN [ok |-> TRUE, item |-> w[results[1]]]
        ELSE [ok |-> FALSE, item |-> Nil]

GetItemByCreationTxHash(w, txHash) ==
    ItemByCreationTx(w, txHash, <<DocTypeStrip, DocTypeBox, DocTypeCarton,
                                  DocTypeShipment, DocTypeOrder>>, 1)

\* place of the first record of the transaction in a history, 0 if none
RECURSIVE RecordOf(_, _, _)
RecordOf(records, txHash, i) ==
    IF i > Len(records) THEN 0
    ELSE IF records[i].txId = txHash THEN i
    ELSE RecordOf(records, txHash, i + 1)

TxHashTraceResult(txHash, timestamp, itemId, itemType, isDelete, value, trace) ==
    [ok |-> trace.ok,
     transactionInfo |-> IF trace.ok
                         THEN [txId |-> txHash, timestamp |-> timestamp,
                               itemId |-> itemId, itemType |-> itemType,
                               isDelete |-> isDelete, value |-> value]
                         ELSE Nil,
     traceability |-> trace]
NoTrace ==
    [ok |-> FALSE, searchedItem |-> Nil, parents |-> <<>>, children |-> <<>>]

\* variant whose fallback looks at the newest record of each key only
RECURSIVE NewestSearch(_, _, _, _, _, _)
NewestSearch(w, h, txHash, docTypes, i, j) ==
    IF i > Len(docTypes) THEN TxHashTraceResult(txHash, 0, "", "", FALSE, Nil, NoTrace)
    ELSE LET results == GetQueryResult(w, [docType |-> docTypes[i]]) IN
         IF j > Len(results) THEN NewestSearch(w, h, txHash, docTypes, i + 1, 1)
         ELSE LET records == GetHistoryForKey(h, results[j]) IN
              IF records = <<>> \/ records[1].txId # txHash
              THEN NewestSearch(w, h, txHash, docTypes, i, j + 1)
              ELSE TxHashTraceResult(txHash, records[1].txId, results[j],
                       docTypes[i], records[1].isDelete, records[1].value,
                       GetFullTraceFromBlockchain(h, results[j]))

\* the fallback loops of GetTraceByTxHash: the kinds from place i, the keys
\* of the kind from place j
RECURSIVE HistorySearch(_, _, _, _, _, _)
HistorySearch(w, h, txHash, docTypes, i, j) ==
    IF i > Len(docTypes) THEN TxHashTraceResult(txHash, 0, "", "", FALSE, Nil, NoTrace)
    ELSE LET results == GetQueryResult(w, [docType |-> docTypes[i]]) IN
         IF j > Len(results) THEN HistorySearch(w, h, txHash, docTypes, i + 1, 1)
         ELSE LET records == GetHistoryForKey(h, results[j])
                  n == RecordOf(records, txHash, 1)
              IN  IF n = 0 THEN HistorySearch(w, h, txHash, docTypes, i, j + 1)
                  ELSE TxHashTraceResult(txHash, records[n].txId, results[j],
                           docTypes[i], records[n].isDelete, records[n].value,
                           GetFullTraceFromBlockchain(h, results[j]))

GetTraceByTxHash(w, h, txHash) ==
    LET found == GetItemByCreationTxHash(w, txHash) IN
    IF found.ok
    THEN LET itemId == Field(found.item, "id")
             docType == Field(found.item, "docType")
             records == GetHistoryForKey(h, itemId)
             n == RecordOf(records, txHash, 1)
         IN  TxHashTraceResult(txHash, IF n = 0 THEN 0 ELSE records[n].txId,
                 itemId, docType, FALSE, found.item,
                 GetFullTraceFromBlockchain(h, itemId))
    ELSE HistorySearch(w, h, txHash, <<DocTypeShipment, DocTypeCarton, DocTypeBox,
                                       DocTypeStrip, DocTypeOrder>>, 1, 1)

\* ------------------------------------------------------------------ inputs
\* Ids are opaque strings that the chaincode only compares for equality, so
\* a call names ids that are on the ledger or the first id that is not.
Known == DOMAIN world
Proposed == UNION {DOMAIN t.writes : t \in pending}
Unused ==
    {KeyNames[i] : i \in {j \in 1..NumKeys :
        /\ KeyNames[j] \notin Known \cup Proposed
        /\ \A l \in 1..(j - 1) : KeyNames[l] \in Known \cup Proposed}}
IdInputs == Known \cup Proposed \cup Unused

SeqsUpTo(S, n) == UNION {[1..m -> S] : m \in 0..n}

\* A list that names an id that is not on the ledger makes the call return
\* NotFound at that id, which changes nothing: the lists that can lead to a
\* new state name ids of the ledger.
ListInputs(n) == {Parsed(ids) : ids \in SeqsUpTo(Known, n)} \cup {BadJSON}
\* A creating call whose new id is taken returns at its assetExists check,
\* before the list argument is parsed: three lists stand for all of them.
ListInputsFor(id, n) ==
    IF assetExists(world, id) THEN {BadJSON, Parsed(<<>>), Parsed(<<id>>)}
    ELSE ListInputs(n)
Distributors == {"dist1"}
SenderIds == {"alice"}
ReceiverIds == {"bob"}
OrgNames == {"Org1MSP"}

\* ----------------------------------------------------- the ledger platform
\* the committed transactions; their number is the height of the ledger
Valid == {t \in DOMAIN status : status[t].code = "VALID"}
Height == Cardinality(Valid)

\* version of a key: the transaction that committed its current value
Version(k) == IF k \in DOMAIN world THEN hist[k][Len(hist[k])].txId ELSE 0

\* commit of a valid transaction: the write set replaces the world-state
\* values and every written key gets one history entry
WorldAfter(w, writes) ==
    [k \in DOMAIN w \cup DOMAIN writes |->
        IF k \in DOMAIN writes THEN writes[k] ELSE w[k]]
HistAfter(h, tx, writes) ==
    [k \in DOMAIN h |->
        IF k \in DOMAIN writes
        THEN Append(h[k], [txId |-> tx, isDelete |-> FALSE, value |-> writes[k]])
        ELSE h[k]]
Apply(tx, writes) ==
    /\ world' = WorldAfter(world, writes)
    /\ hist' = HistAfter(hist, tx, writes)

\* the record kept of a submitted transaction
Submitted(tx, op, id, ids, height, reads, code) ==
    [t \in DOMAIN status \cup {tx} |->
        IF t = tx THEN [op |-> op, id |-> id, ids |-> ids, height |-> height,
                        reads |-> reads, code |-> code]
        ELSE status[t]]

\* a client may start a call: the run is within its length and nothing is
\* in flight
Open(max) == txCount < max /\ pending = {}

\* endorse + submit + commit status of one proposal with nothing else in
\* flight.  A simulation that returns an error is reported to the caller and
\* never ordered: it leaves the ledger as it is (a stuttering step), so the
\* step is taken only by a simulation that succeeds.
Invoke(op, id, ids, res) ==
    /\ res.ok
    /\ Apply(txCount + 1, res.writes)
    /\ txCount' = txCount + 1
    /\ status' = Submitted(txCount + 1, op, id, ids, Height,
                           [k \in res.reads |-> Version(k)], "VALID")
    /\ UNCHANGED <<pending, reply>>

\* no read-only call was made yet
NoReply == [op |-> "", id |-> "", tx |-> 0, result |-> Nil]

Init ==
    /\ world = [k \in {} |-> 0]
    /\ hist = [k \in Keys |-> <<>>]
    /\ txCount = 0
    /\ pending = {}
    /\ status = [t \in {} |-> 0]
    /\ reply = NoReply

TxCreateStrip(max) ==
    Open(max) /\ \E id \in IdInputs :
        Invoke("CreateStrip", id, <<>>, CreateStrip(world, txCount + 1, id))
TxSealBox(max) ==
    Open(max) /\ \E id \in IdInputs : \E arg \in ListInputsFor(id, MaxLen) :
        Invoke("SealBox", id, arg.ids, SealBox(world, txCount + 1, id, arg))
TxSealCarton(max) ==
    Open(max) /\ \E id \in IdInputs : \E arg \in ListInputsFor(id, MaxLen) :
        Invoke("SealCarton", id, arg.ids, SealCarton(world, txCount + 1, id, arg))
TxSealShipment(max) ==
    Open(max) /\ \E id \in IdInputs : \E arg \in ListInputsFor(id, MaxLen) :
        Invoke("SealShipment", id, arg.ids, SealShipment(world, txCount + 1, id, arg))
TxDistributeShipment(max) ==
    Open(max) /\ \E id \in IdInputs, d \in Distributors :
        Invoke("DistributeShipment", id, <<>>, DistributeShipment(world, txCount + 1, id, d))
TxCreateOrder(max) ==
    Open(max) /\ \E id \in IdInputs : \E arg \in ListInputsFor(id, MaxLen), s \in SenderIds, so \in OrgNames,
       r \in ReceiverIds, ro \in OrgNames :
        Invoke("CreateOrder", id, arg.ids,
               CreateOrder(world, txCount + 1, id, arg, s, so, r, ro))
TxDispatchOrder(max) ==
    Open(max) /\ \E id \in IdInputs :
        Invoke("DispatchOrder", id, <<>>, DispatchOrder(world, txCount + 1, id))
TxDeliverOrder(max) ==
    Open(max) /\ \E id \in IdInputs :
        Invoke("DeliverOrder", id, <<>>, DeliverOrder(world, txCount + 1, id))

Next ==
    \/ TxCreateStrip(MaxTx)
    \/ TxSealBox(MaxTx)
    \/ TxSealCarton(MaxTx)
    \/ TxSealShipment(MaxTx)
    \/ TxDistributeShipment(MaxTx)
    \/ TxCreateOrder(MaxTx)
    \/ TxDispatchOrder(MaxTx)
    \/ TxDeliverOrder(MaxTx)

Spec == Init /\ [][Next]_vars

\* the same operations, one transaction deeper
NextDeep ==
    \/ TxCreateStrip(MaxTxDeep)
    \/ TxSealBox(MaxTxDeep)
    \/ TxSealCarton(MaxTxDeep)
    \/ TxSealShipment(MaxTxDeep)
    \/ TxDistributeShipment(MaxTxDeep)
    \/ TxCreateOrder(MaxTxDeep)
    \/ TxDispatchOrder(MaxTxDeep)
    \/ TxDeliverOrder(MaxTxDeep)

SpecDeep == Init /\ [][NextDeep]_vars

\* the same operations with child lists of at most MaxLenConc ids: what a
\* lookup by transaction resolves does not depend on the length of the lists
ShortSealBox ==
    Open(MaxTx) /\ \E id \in IdInputs : \E arg \in ListInputsFor(id, MaxLenConc) :
        Invoke("SealBox", id, arg.ids, SealBox(world, txCount + 1, id, arg))
ShortSealCarton ==
    Open(MaxTx) /\ \E id \in IdInputs : \E arg \in ListInputsFor(id, MaxLenConc) :
        Invoke("SealCarton", id, arg.ids, SealCarton(world, txCount + 1, id, arg))
ShortSealShipment ==
    Open(MaxTx) /\ \E id \in IdInputs : \E arg \in ListInputsFor(id, MaxLenConc) :
        Invoke("SealShipment", id, arg.ids, SealShipment(world, txCount + 1, id, arg))
ShortCreateOrder ==
    Open(MaxTx) /\ \E id \in IdInputs : \E arg \in ListInputsFor(id, MaxLenConc), s \in SenderIds,
       so \in OrgNames, r \in ReceiverIds, ro \in OrgNames :
        Invoke("CreateOrder", id, arg.ids,
               CreateOrder(world, txCount + 1, id, arg, s, so, r, ro))

NextShort ==
    \/ TxCreateStrip(MaxTx)
    \/ ShortSealBox
    \/ ShortSealCarton
    \/ ShortSealShipment
    \/ TxDistributeShipment(MaxTx)
    \/ ShortCreateOrder
    \/ TxDispatchOrder(MaxTx)
    \/ TxDeliverOrder(MaxTx)

SpecShort == Init /\ [][NextShort]_vars

\* ------------------------------------------------- concurrent submission
\* a client may send one more proposal
Room == txCount < MaxTx /\ Cardinality(pending) < MaxPending

\* proposal.endorse(): the chaincode is simulated against the committed
\* state; the result is the read set (keys read through GetState with the
\* versions seen) and the write set.  Nothing is written yet.
Endorse(op, id, ids, res) ==
    /\ res.ok
    /\ pending' = pending \cup {[tx |-> txCount + 1, op |-> op, id |-> id,
                                 ids |-> ids, height |-> Height,
                                 reads |-> [k \in res.reads |-> Version(k)],
                                 writes |-> res.writes]}
    /\ txCount' = txCount + 1
    /\ UNCHANGED <<world, hist, status, reply>>

\* validation at commit: every key of the read set must still have the
\* version that the simulation saw
ReadSetCurrent(t) == \A k \in DOMAIN t.reads : Version(k) = t.reads[k]

\* txn.submit() and commit.getStatus(): the transaction is ordered and
\* validated; a valid one is applied, an invalid one leaves no trace in the
\* world state or in any key's history
Submit(t) ==
    /\ pending' = pending \ {t}
    /\ IF ReadSetCurrent(t)
       THEN /\ Apply(t.tx, t.writes)
            /\ status' = Submitted(t.tx, t.op, t.id, t.ids, t.height, t.reads,
                                  "VALID")
       ELSE /\ status' = Submitted(t.tx, t.op, t.id, t.ids, t.height, t.reads,
                                  "MVCC_READ_CONFLICT")
            /\ UNCHANGED <<world, hist>>
    /\ UNCHANGED <<txCount, reply>>

ProposeCreateStrip ==
    Room /\ \E id \in IdInputs : Endorse("CreateStrip", id, <<>>, CreateStrip(world, txCount + 1, id))
ProposeSealBox ==
    Room /\ \E id \in IdInputs : \E arg \in ListInputsFor(id, MaxLenConc) :
        Endorse("SealBox", id, arg.ids, SealBox(world, txCount + 1, id, arg))
ProposeSealCarton ==
    Room /\ \E id \in IdInputs : \E arg \in ListInputsFor(id, MaxLenConc) :
        Endorse("SealCarton", id, arg.ids, SealCarton(world, txCount + 1, id, arg))
ProposeSealShipment ==
    Room /\ \E id \in IdInputs : \E arg \in ListInputsFor(id, MaxLenConc) :
        Endorse("SealShipment", id, arg.ids, SealShipment(world, txCount + 1, id, arg))
ProposeDistributeShipment ==
    Room /\ \E id \in IdInputs, d \in Distributors :
        Endorse("DistributeShipment", id, <<>>, DistributeShipment(world, txCount + 1, id, d))
ProposeCreateOrder ==
    Room /\ \E id \in IdInputs : \E arg \in ListInputsFor(id, MaxLenConc), s \in SenderIds, so \in OrgNames,
       r \in ReceiverIds, ro \in OrgNames :
        Endorse("CreateOrder", id, arg.ids,
               CreateOrder(world, txCount + 1, id, arg, s, so, r, ro))
ProposeDispatchOrder ==
    Room /\ \E id \in IdInputs : Endorse("DispatchOrder", id, <<>>, DispatchOrder(world, txCount + 1, id))
ProposeDeliverOrder ==
    Room /\ \E id \in IdInputs : Endorse("DeliverOrder", id, <<>>, DeliverOrder(world, txCount + 1, id))
CommitTx ==
    \E t \in pending : Submit(t)

NextConc ==
    \/ ProposeCreateStrip
    \/ ProposeSealBox
    \/ ProposeSealCarton
    \/ ProposeSealShipment
    \/ ProposeDistributeShipment
    \/ ProposeCreateOrder
    \/ ProposeDispatchOrder
    \/ ProposeDeliverOrder
    \/ CommitTx

SpecConc == Init /\ [][NextConc]_vars

\* ------------------------------------------------------ read-only calls
\* variant that sends the call through submit: its transaction is ordered
\* and the key it names gets a history entry
EvaluateAsSubmit(op, id, tx, result) ==
    /\ reply' = [op |-> op, id |-> id, tx |-> tx, result |-> result]
    /\ hist' = [k \in Keys |->
                   IF k = id /\ k \in DOMAIN world
                   THEN Append(hist[k], [txId |-> txCount + 1, isDelete |-> FALSE,
                                         value |-> world[k]])
                   ELSE hist[k]]
    /\ txCount' = txCount + 1
    /\ UNCHANGED <<world, pending, status>>

\* contract.evaluateTransaction: one peer runs the function against the
\* committed state and returns its result; nothing is ordered or committed
Evaluate(op, id, tx, result) ==
    /\ reply' = [op |-> op, id |-> id, tx |-> tx, result |-> result]
    /\ UNCHANGED <<world, hist, txCount, pending, status>>

\* The read functions are functions of the ledger alone, so they are run on
\* ledgers drawn from a bounded family that has what no call of this
\* chaincode leaves behind: deleted keys (history tombstones), pointers and
\* child lists that name missing keys or form cycles.
TraceKeys == {KeyNames[1], KeyNames[2]}
KeyIndex(k) == CHOOSE i \in 1..Len(KeyNames) : KeyNames[i] = k

Blank(fields, docType, id) ==
    [f \in fields |-> IF f = "docType" THEN docType
                      ELSE IF f = "id" THEN id
                      ELSE IF f = "status" THEN StatusCreated
                      ELSE Zero(f)]
\* documents of every kind whose parent pointer or child list is set
TraceDocs(id) ==
    LET Ptrs == TraceKeys
        Lists == SeqsUpTo(TraceKeys, MaxLen)
        With(doc, f, v) == [doc EXCEPT ![f] = v]
    IN  {Blank(Strip, DocTypeStrip, id)}
        \cup {With(Blank(Strip, DocTypeStrip, id), "boxId", p) : p \in Ptrs}
        \cup {With(Blank(Box, DocTypeBox, id), "cartonId", p) : p \in Ptrs}
        \cup {With(Blank(Box, DocTypeBox, id), "strips", l) : l \in Lists}
        \cup {With(Blank(Carton, DocTypeCarton, id), "shipmentId", p) : p \in Ptrs}
        \cup {With(Blank(Carton, DocTypeCarton, id), "boxes", l) : l \in Lists}
        \cup {With(Blank(Shipment, DocTypeShipment, id), "orderId", p) : p \in Ptrs}
        \cup {With(Blank(Shipment, DocTypeShipment, id), "cartons", l) : l \in Lists}
        \cup {With(Blank(Order, DocTypeOrder, id), "itemIds", l) : l \in Lists}

\* a key's history is a sequence of writes and deletions; the unsealed
\* strip takes every such sequence, the other documents are written once
\* and then deleted or not
Deletions(doc) ==
    IF doc = Blank(Strip, DocTypeStrip, doc["id"])
    THEN SeqsUpTo(BOOLEAN, MaxHist)
    ELSE {<<FALSE>>, <<FALSE, TRUE>>}
\* entry j of the key is written by a transaction of its own
TxOf(id, j) == (j - 1) * Cardinality(TraceKeys) + KeyIndex(id)
Created(deletions) ==
    IF \E j \in 1..Len(deletions) : ~deletions[j]
    THEN CHOOSE j \in 1..Len(deletions) :
             ~deletions[j] /\ \A l \in 1..(j - 1) : deletions[l]
    ELSE 0
HistoryOf(doc, deletions) ==
    [j \in 1..Len(deletions) |->
        [txId |-> TxOf(doc["id"], j), isDelete |-> deletions[j],
         value |-> IF deletions[j] THEN Nil
                   ELSE [doc EXCEPT !["creationTxId"] = TxOf(doc["id"], Created(deletions)),
                                    !["createdAt"] = TxOf(doc["id"], Created(deletions)),
                                    !["updatedAt"] = TxOf(doc["id"], j)]]]
Histories(id) ==
    UNION {{HistoryOf(doc, d) : d \in Deletions(doc)} : doc \in TraceDocs(id)}

\* the world state holds the last written value of every key that was not
\* deleted since
WorldOf(h) ==
    [k \in {x \in DOMAIN h : h[x] # <<>> /\ ~h[x][Len(h[x])].isDelete} |->
        h[k][Len(h[k])].value]

InitTrace ==
    /\ \E h1 \in Histories(KeyNames[1]), h2 \in Histories(KeyNames[2]) :
           hist = [k \in Keys |-> IF k = KeyNames[1] THEN h1
                                  ELSE IF k = KeyNames[2] THEN h2 ELSE <<>>]
    /\ world = WorldOf(hist)
    /\ txCount = MaxHist * Cardinality(TraceKeys)
    /\ pending = {}
    /\ status = [t \in {} |-> 0]
    /\ reply = NoReply

\* a client makes a read-only call, and may then repeat it
Asks(op, id, tx) ==
    reply = NoReply \/ (reply.op = op /\ reply.id = id /\ reply.tx = tx)
\* the transaction ids asked for: those of the first write of each key, and
\* one that no history has
TxInputs == {TxOf(id, 1) : id \in TraceKeys} \cup {txCount + 1}

EvalScanBarcode ==
    \E id \in TraceKeys :
        Asks("ScanBarcode", id, 0)
        /\ Evaluate("ScanBarcode", id, 0, ScanBarcode(world, id))
EvalGetFullTraceFromBlockchain ==
    \E id \in TraceKeys :
        Asks("GetFullTraceFromBlockchain", id, 0)
        /\ Evaluate("GetFullTraceFromBlockchain", id, 0,
                    GetFullTraceFromBlockchain(hist, id))
EvalGetTraceByTxHash ==
    \E tx \in TxInputs :
        Asks("GetTraceByTxHash", "", tx)
        /\ Evaluate("GetTraceByTxHash", "", tx, GetTraceByTxHash(world, hist, tx))

NextTrace ==
    \/ EvalScanBarcode
    \/ EvalGetFullTraceFromBlockchain
    \/ EvalGetTraceByTxHash

SpecTrace == InitTrace /\ [][NextTrace]_vars

\* ======================================================================
\* Properties
\* ======================================================================
\* the owning-parent field and the child list that go with a kind
OwnerField(docType) ==
    CASE docType = DocTypeStrip -> "boxId"
      [] docType = DocTypeBox -> "cartonId"
      [] docType = DocTypeCarton -> "shipmentId"
      [] OTHER -> "none"
ChildField(docType) ==
    CASE docType = DocTypeBox -> "strips"
      [] docType = DocTypeCarton -> "boxes"
      [] docType = DocTypeShipment -> "cartons"
      [] docType = DocTypeOrder -> "itemIds"
      [] OTHER -> "none"
Owner(doc) == Field(doc, OwnerField(doc["docType"]))
Children(doc) ==
    IF ChildField(doc["docType"]) = "none" THEN <<>>
    ELSE Field(doc, ChildField(doc["docType"]))
Range(q) == {q[i] : i \in 1..Len(q)}
Containers == {DocTypeBox, DocTypeCarton, DocTypeShipment}

\* C1: the owning-parent field of a strip, box or carton, once non-empty,
\* keeps its value in every later committed state, and no entity is listed
\* as a child by two containers of the kind that owns it.
OwnerKept ==
    \A k \in DOMAIN world :
        Owner(world[k]) # "" =>
            k \in DOMAIN world' /\ Owner(world'[k]) = Owner(world[k])
ListedBy(k) ==
    {p \in DOMAIN world :
        world[p]["docType"] \in Containers /\ k \in Range(Children(world[p]))}
NoTwoParents == \A k \in DOMAIN world : Cardinality(ListedBy(k)) <= 1
C1_SingleAssignment == [][OwnerKept]_vars /\ []NoTwoParents

\* C2: the child list of an existing box, carton, shipment or order is the
\* same after every step.
C2_ChildListImmutable ==
    [][\A k \in DOMAIN world :
          world[k]["docType"] \in Containers \cup {DocTypeOrder} =>
              k \in DOMAIN world' /\ Children(world'[k]) = Children(world[k])]_vars

\* what a committed transaction wrote under a key
Wrote(t, k) == \E i \in 1..Len(hist[k]) : hist[k][i].txId = t
WrittenBy(t, k) ==
    hist[k][CHOOSE i \in 1..Len(hist[k]) : hist[k][i].txId = t].value
\* the value of key k that transaction t replaced (k existed before t)
HadBefore(t, k) ==
    \E i \in 2..Len(hist[k]) : hist[k][i].txId = t
Before(t, k) ==
    hist[k][(CHOOSE i \in 2..Len(hist[k]) : hist[k][i].txId = t) - 1].value
SealOps == {"SealBox", "SealCarton", "SealShipment"}
SealDocType(op) ==
    CASE op = "SealBox" -> DocTypeBox
      [] op = "SealCarton" -> DocTypeCarton
      [] op = "SealShipment" -> DocTypeShipment
SealOwner(op) ==
    CASE op = "SealBox" -> "boxId"
      [] op = "SealCarton" -> "cartonId"
      [] op = "SealShipment" -> "shipmentId"
SealUpstream(op) ==
    CASE op = "SealBox" -> "cartonId"
      [] op = "SealCarton" -> "shipmentId"
      [] op = "SealShipment" -> "orderId"
SealChildType(op) ==
    CASE op = "SealBox" -> DocTypeStrip
      [] op = "SealCarton" -> DocTypeBox
      [] op = "SealShipment" -> DocTypeCarton
Seal(op, w, tx, id, arg) ==
    CASE op = "SealBox" -> SealBox(w, tx, id, arg)
      [] op = "SealCarton" -> SealCarton(w, tx, id, arg)
      [] op = "SealShipment" -> SealShipment(w, tx, id, arg)
AllLists == SeqsUpTo(IdInputs, MaxLen)

\* C3: when SealBox, SealCarton or SealShipment commits, what it wrote is:
\* every listed child with its owning-parent field equal to the new parent's
\* id and status SEALED, and the parent with the child list as given, an
\* empty upstream-parent field, status CREATED and the creationTxId of the
\* sealing transaction.
SealPost(t, parentID, ids, op) ==
    /\ Wrote(t, parentID)
    /\ LET parent == WrittenBy(t, parentID) IN
          /\ parent["docType"] = SealDocType(op)
          /\ ChildField(SealDocType(op)) \in DOMAIN parent
          /\ parent[ChildField(SealDocType(op))] = ids
          /\ SealUpstream(op) \in DOMAIN parent
          /\ parent[SealUpstream(op)] = ""
          /\ parent["status"] = StatusCreated
          /\ parent["creationTxId"] = t
    /\ \A i \in 1..Len(ids) :
          /\ Wrote(t, ids[i])
          /\ SealOwner(op) \in DOMAIN WrittenBy(t, ids[i])
          /\ WrittenBy(t, ids[i])[SealOwner(op)] = parentID
          /\ WrittenBy(t, ids[i])["status"] = StatusSealed
C3_SealPostcondition ==
    \A t \in Valid :
        status[t].op \in SealOps => SealPost(t, status[t].id, status[t].ids, status[t].op)
C3_Witness ==
    /\ txCount \in Valid
    /\ status[txCount].op = "SealBox"
    /\ Len(status[txCount].ids) = 2
    /\ status[txCount].ids[1] # status[txCount].ids[2]
    /\ world[status[txCount].id]["strips"] = status[txCount].ids

\* C4: wherever a client can make a call, a seal call whose parent id exists,
\* or that lists a child that is missing or already has a parent, fails with AlreadyExists, NotFound or
\* AlreadyAssigned (naming the current parent) and writes nothing; and no
\* committed transaction ever gave a child to a parent without creating that
\* parent and claiming all of its listed, previously unassigned children.
FirstBad(w, ids, owner) ==
    {i \in 1..Len(ids) :
        /\ ids[i] \notin DOMAIN w \/ Field(w[ids[i]], owner) # ""
        /\ \A j \in 1..(i - 1) : ids[j] \in DOMAIN w /\ Field(w[ids[j]], owner) = ""}
ExpectedSealErr(w, id, ids, owner) ==
    IF id \in DOMAIN w THEN Err("AlreadyExists", id, "")
    ELSE LET bad == ids[CHOOSE i \in FirstBad(w, ids, owner) : TRUE] IN
         IF bad \notin DOMAIN w THEN Err("NotFound", bad, "")
         ELSE Err("AlreadyAssigned", bad, Field(w[bad], owner))
SealRejects ==
    Open(MaxTx) =>
    \A op \in SealOps, id \in IdInputs, ids \in AllLists :
        (id \in DOMAIN world \/ FirstBad(world, ids, SealOwner(op)) # {}) =>
            LET r == Seal(op, world, txCount + 1, id, Parsed(ids)) IN
            /\ ~r.ok
            /\ r.writes = NoWrites
            /\ r.err = ExpectedSealErr(world, id, ids, SealOwner(op))
\* history entry i of key k is the one that put k into a parent through owner
Claims(k, i, owner) ==
    /\ owner \in DOMAIN hist[k][i].value
    /\ hist[k][i].value[owner] # ""
    /\ i > 1 => Field(hist[k][i - 1].value, owner) # hist[k][i].value[owner]
NoPartialSeal ==
    \A k \in Keys, op \in SealOps :
        \A i \in 1..Len(hist[k]) :
            Claims(k, i, SealOwner(op)) =>
                LET t == hist[k][i].txId
                    p == hist[k][i].value[SealOwner(op)]
                IN  /\ Wrote(t, p)
                    /\ Len(hist[p]) >= 1 /\ hist[p][1].txId = t
                    /\ k \in Range(Field(WrittenBy(t, p), ChildField(SealDocType(op))))
                    /\ \A d \in Range(Field(WrittenBy(t, p), ChildField(SealDocType(op)))) :
                          /\ HadBefore(t, d)
                          /\ Field(Before(t, d), SealOwner(op)) = ""
                          /\ Field(WrittenBy(t, d), SealOwner(op)) = p
C4_SealAllOrNothing == SealRejects /\ NoPartialSeal
\* a client can make a seal call that lists an unassigned entity and then a
\* sealed strip: the first child is updated before the second is rejected
C4_Witness ==
    \E a, b \in DOMAIN world, id \in Unused :
        /\ Open(MaxTx)
        /\ a # b
        /\ Field(world[a], "boxId") = ""
        /\ world[b]["docType"] = DocTypeStrip /\ Field(world[b], "boxId") # ""
        /\ SealBox(world, txCount + 1, id, Parsed(<<a, b>>)).err
               = Err("AlreadyAssigned", b, world[b]["boxId"])

\* C5: of two SealBox transactions for different new boxes that list the
\* same strip and were simulated against the same committed state, at most
\* one commits; the committed one wrote the strip with its own box id, and
\* the other one wrote neither the strip nor its box.
Rivals(t1, t2) ==
    /\ t1 # t2
    /\ status[t1].op = "SealBox" /\ status[t2].op = "SealBox"
    /\ status[t1].id # status[t2].id
    /\ status[t1].height = status[t2].height
    /\ Range(status[t1].ids) \cap Range(status[t2].ids) # {}
C5_OneSealCommits ==
    \A t1, t2 \in DOMAIN status :
        Rivals(t1, t2) /\ t1 \in Valid =>
            /\ t2 \notin Valid
            /\ \A c \in Range(status[t1].ids) :
                  /\ Wrote(t1, c)
                  /\ WrittenBy(t1, c)["boxId"] = status[t1].id
                  /\ ~Wrote(t2, c)
            /\ ~Wrote(t2, status[t2].id)
C5_Witness ==
    \E t1, t2 \in DOMAIN status :
        /\ Rivals(t1, t2)
        /\ status[t1].code = "VALID"
        /\ status[t2].code = "MVCC_READ_CONFLICT"
        /\ status[t2].id \notin DOMAIN world

\* C6: every committed seal took only children of its own kind: strips for
\* SealBox, boxes for SealCarton, cartons for SealShipment.
C6_ChildKindChecked ==
    \A t \in Valid :
        status[t].op \in SealOps =>
            \A c \in Range(status[t].ids) :
                Wrote(t, c) /\ WrittenBy(t, c)["docType"] = SealChildType(status[t].op)

\* C7: no seal transaction with an empty child list commits, so no box,
\* carton or shipment is created from an empty list.
C7_EmptyListRejected ==
    \A t \in Valid : status[t].op \in SealOps => Len(status[t].ids) > 0

\* C8: wherever a client can make a call, CreateStrip, SealBox, SealCarton,
\* SealShipment and CreateOrder called with an id that is on the ledger, whatever its kind, fail with
\* AlreadyExists and write nothing; every key on the ledger was created by
\* exactly one committed creating transaction, which is the first entry of
\* its history, holds the last value of its history, and has no delete entry.
CreateOps == {"CreateStrip", "SealBox", "SealCarton", "SealShipment", "CreateOrder"}
Rejected(r, id) ==
    ~r.ok /\ r.writes = NoWrites /\ r.err = Err("AlreadyExists", id, "")
CreateRejects ==
    Open(MaxTx) =>
    \A id \in DOMAIN world :
        /\ Rejected(CreateStrip(world, txCount + 1, id), id)
        /\ \A arg \in {Parsed(ids) : ids \in AllLists} \cup {BadJSON} :
              /\ \A op \in SealOps : Rejected(Seal(op, world, txCount + 1, id, arg), id)
              /\ Rejected(CreateOrder(world, txCount + 1, id, arg,
                                      "alice", "Org1MSP", "bob", "Org1MSP"), id)
Creators(k) == {t \in Valid : status[t].op \in CreateOps /\ status[t].id = k}
CreatedOnce ==
    \A k \in Keys :
        /\ k \in DOMAIN world <=> Len(hist[k]) > 0
        /\ k \in DOMAIN world =>
              /\ Creators(k) = {hist[k][1].txId}
              /\ world[k] = hist[k][Len(hist[k])].value
              /\ world[k]["id"] = k
        /\ k \notin DOMAIN world => Creators(k) = {}
        /\ \A i \in 1..Len(hist[k]) : ~hist[k][i].isDelete
C8_GlobalIdUniqueness == CreateRejects /\ CreatedOnce
\* an entity of one kind is on the ledger, was rewritten after its creation,
\* and creating calls of other kinds that name its id are rejected
C8_Witness ==
    \E k \in DOMAIN world :
        /\ Open(MaxTx)
        /\ Len(hist[k]) >= 2
        /\ world[k]["docType"] = DocTypeStrip
        /\ ~SealBox(world, txCount + 1, k, Parsed(<<>>)).ok
        /\ \E j \in DOMAIN world : world[j]["docType"] = DocTypeBox

\* C9: the creationTxId of every entity is the id of the transaction that
\* made the oldest entry of its key's history, in every value the key has
\* had.
C9_CreationTxIdTruthful ==
    \A k \in DOMAIN world :
        /\ world[k]["creationTxId"] = hist[k][1].txId
        /\ \A i \in 1..Len(hist[k]) :
              hist[k][i].value["creationTxId"] = hist[k][1].txId
\* an order that was dispatched after its creation, and a shipment that was
\* put into it
C9_Witness ==
    \E t \in Valid, k \in DOMAIN world :
        /\ status[t].op = "DispatchOrder" /\ status[t].id = k
        /\ world[k]["docType"] = DocTypeOrder
        /\ hist[k][1].txId # t
        /\ \E c \in Range(world[k]["itemIds"]) : Len(hist[c]) >= 2

\* C10: along the history of an order, the status never goes back from
\* DELIVERED to DISPATCHED or CREATED, nor from DISPATCHED to CREATED.
Rank(s) ==
    CASE s = StatusCreated -> 1
      [] s = StatusDispatched -> 2
      [] s = StatusDelivered -> 3
      [] OTHER -> 0
C10_OrderStatusForward ==
    \A k \in DOMAIN world :
        \A i, j \in 1..Len(hist[k]) :
            LET a == hist[k][i].value
                b == hist[k][j].value IN
            (/\ i < j
             /\ a["docType"] = DocTypeOrder
             /\ status[hist[k][j].txId].op \in {"DispatchOrder", "DeliverOrder"}
             /\ Rank(a["status"]) > 0) =>
                Rank(b["status"]) >= Rank(a["status"])

\* C11: along the history of a shipment, the status never goes back from
\* SHIPPED to IN_ORDER or CREATED, nor from IN_ORDER to CREATED, whatever
\* SealShipment, CreateOrder and DistributeShipment calls are made.
ShipmentRank(s) ==
    CASE s = StatusCreated -> 1
      [] s = StatusInOrder -> 2
      [] s = StatusShipped -> 3
      [] OTHER -> 0
C11_ShipmentStatusForward ==
    \A k \in DOMAIN world :
        \A i, j \in 1..Len(hist[k]) :
            LET a == hist[k][i].value
                b == hist[k][j].value IN
            (/\ i < j
             /\ a["docType"] = DocTypeShipment
             /\ status[hist[k][j].txId].op \in {"CreateOrder", "DistributeShipment"}
             /\ ShipmentRank(a["status"]) > 0) =>
                ShipmentRank(b["status"]) >= ShipmentRank(a["status"])

\* C12: wherever a client can make a call, an operation whose status change
\* would go back in the lattice of the kind fails with InvalidState and
\* writes nothing: DispatchOrder on a DELIVERED order, and CreateOrder that
\* lists a SHIPPED shipment.
InvalidState(r, id) ==
    ~r.ok /\ r.writes = NoWrites /\ r.err = Err("InvalidState", id, "")
C12_LatticeViolationsRejected ==
    Open(MaxTxDeep) =>
    \A k \in DOMAIN world :
        /\ (world[k]["docType"] = DocTypeOrder /\ world[k]["status"] = StatusDelivered)
              => InvalidState(DispatchOrder(world, txCount + 1, k), k)
        /\ (world[k]["docType"] = DocTypeShipment /\ world[k]["status"] = StatusShipped)
              => \A id \in Unused :
                    InvalidState(CreateOrder(world, txCount + 1, id, Parsed(<<k>>),
                                             "alice", "Org1MSP", "bob", "Org1MSP"), k)

\* C13: wherever a client can make a call, CreateOrder fails and writes
\* nothing when the order id exists (AlreadyExists), when the list is empty
\* (InvalidInput), or when a listed id is missing (NotFound) or is not tagged
\* shipment (NotAShipment), also after shipments earlier in the list; and no
\* committed transaction ever put a shipment into an order without creating
\* that order and claiming every listed shipment.
FirstBadItem(w, ids) ==
    {i \in 1..Len(ids) :
        /\ ids[i] \notin DOMAIN w \/ w[ids[i]]["docType"] # DocTypeShipment
        /\ \A j \in 1..(i - 1) :
              ids[j] \in DOMAIN w /\ w[ids[j]]["docType"] = DocTypeShipment}
ExpectedOrderErr(w, id, ids) ==
    IF id \in DOMAIN w THEN Err("AlreadyExists", id, "")
    ELSE IF ids = <<>> THEN Err("InvalidInput", id, "")
    ELSE LET bad == ids[CHOOSE i \in FirstBadItem(w, ids) : TRUE] IN
         IF bad \notin DOMAIN w THEN Err("NotFound", bad, "")
         ELSE Err("NotAShipment", bad, "")
OrderRejects ==
    Open(MaxTx) =>
    \A id \in IdInputs, ids \in AllLists :
        (id \in DOMAIN world \/ ids = <<>> \/ FirstBadItem(world, ids) # {}) =>
            LET r == CreateOrder(world, txCount + 1, id, Parsed(ids),
                                 "alice", "Org1MSP", "bob", "Org1MSP") IN
            /\ ~r.ok
            /\ r.writes = NoWrites
            /\ r.err = ExpectedOrderErr(world, id, ids)
NoPartialOrder ==
    \A t \in Valid :
        status[t].op = "CreateOrder" =>
            \A k \in Keys :
                (Wrote(t, k) /\ k # status[t].id) =>
                    LET o == status[t].id IN
                    /\ Wrote(t, o) /\ hist[o][1].txId = t
                    /\ k \in Range(WrittenBy(t, o)["itemIds"])
                    /\ \A d \in Range(WrittenBy(t, o)["itemIds"]) :
                          /\ HadBefore(t, d)
                          /\ Before(t, d)["docType"] = DocTypeShipment
                          /\ WrittenBy(t, d)["orderId"] = o
C13_CreateOrderRejects == OrderRejects /\ NoPartialOrder
\* a client can make a CreateOrder call that lists a shipment and then an
\* entity of another kind: the shipment is updated before the call is rejected
C13_Witness ==
    \E s, x \in DOMAIN world, id \in Unused :
        /\ Open(MaxTx)
        /\ world[s]["docType"] = DocTypeShipment
        /\ world[x]["docType"] # DocTypeShipment
        /\ CreateOrder(world, txCount + 1, id, Parsed(<<s, x>>),
                       "alice", "Org1MSP", "bob", "Org1MSP").err
               = Err("NotAShipment", x, "")

\* C14: when CreateOrder commits, every listed shipment has orderId equal to
\* the order id and status IN_ORDER with its carton list and creationTxId as
\* before, and the order is a new key with itemIds equal to the given list,
\* status CREATED, the given sender and receiver fields, and the creationTxId
\* of the creating transaction.
OrderPost(t, orderID, ids) ==
    /\ Wrote(t, orderID) /\ hist[orderID][1].txId = t
    /\ LET order == WrittenBy(t, orderID) IN
          /\ DOMAIN order = Order
          /\ order["docType"] = DocTypeOrder
          /\ order["id"] = orderID
          /\ order["itemIds"] = ids
          /\ order["status"] = StatusCreated
          /\ order["senderId"] \in SenderIds /\ order["senderOrg"] \in OrgNames
          /\ order["receiverId"] \in ReceiverIds /\ order["receiverOrg"] \in OrgNames
          /\ order["creationTxId"] = t
    /\ \A c \in Range(ids) :
          /\ Wrote(t, c) /\ HadBefore(t, c)
          /\ LET shipment == WrittenBy(t, c)
                 old == Before(t, c) IN
                /\ shipment["docType"] = DocTypeShipment
                /\ shipment["orderId"] = orderID
                /\ shipment["status"] = StatusInOrder
                /\ shipment["cartons"] = Field(old, "cartons")
                /\ shipment["creationTxId"] = old["creationTxId"]
C14_CreateOrderEffect ==
    \A t \in Valid :
        status[t].op = "CreateOrder" => OrderPost(t, status[t].id, status[t].ids)
C14_Witness ==
    /\ txCount \in Valid
    /\ status[txCount].op = "CreateOrder"
    /\ Len(status[txCount].ids) = 2
    /\ status[txCount].ids[1] # status[txCount].ids[2]
    /\ world[status[txCount].id]["itemIds"] = status[txCount].ids

\* C15: DispatchOrder on an existing order writes status DISPATCHED; called
\* again on an order whose last write was a DispatchOrder it succeeds, writes
\* only that order, and the order it writes differs from the current one at
\* most in dispatchedAt and updatedAt.
LastWriter(k) == hist[k][Len(hist[k])].txId
WriterBefore(t, k) ==
    hist[k][(CHOOSE i \in 2..Len(hist[k]) : hist[k][i].txId = t) - 1].txId
SameButFor(a, b, fields) ==
    /\ DOMAIN a = DOMAIN b
    /\ \A f \in DOMAIN a \ fields : a[f] = b[f]
DispatchTimes == {"dispatchedAt", "updatedAt"}
JustDispatched(k) ==
    /\ world[k]["docType"] = DocTypeOrder
    /\ status[LastWriter(k)].op = "DispatchOrder"
C15_DispatchRepeatable ==
    /\ \A t \in Valid :
          (status[t].op = "DispatchOrder"
              /\ Before(t, status[t].id)["docType"] = DocTypeOrder) =>
                 /\ WrittenBy(t, status[t].id)["status"] = StatusDispatched
                 /\ status[WriterBefore(t, status[t].id)].op = "DispatchOrder" =>
                       SameButFor(Before(t, status[t].id), WrittenBy(t, status[t].id),
                                  DispatchTimes)
    /\ \A k \in DOMAIN world :
          JustDispatched(k) =>
              LET r == DispatchOrder(world, txCount + 1, k) IN
              /\ r.ok
              /\ DOMAIN r.writes = {k}
              /\ r.writes[k]["status"] = StatusDispatched
              /\ SameButFor(world[k], r.writes[k], DispatchTimes)
C15_Witness ==
    \E k \in DOMAIN world :
        /\ JustDispatched(k)
        /\ world[k]["status"] = StatusDispatched
        /\ DispatchOrder(world, txCount + 1, k).writes[k]["dispatchedAt"]
               # world[k]["dispatchedAt"]

\* C16: an order whose history was written by CreateOrder, then
\* DispatchOrder, then DeliverOrder has the statuses CREATED, DISPATCHED,
\* DELIVERED in its history entries, in that order and with nothing else; and
\* where the sequence is not complete, its next operation applied to the
\* ledger succeeds and writes the order with the next status.
RoundTripOps == <<"CreateOrder", "DispatchOrder", "DeliverOrder">>
RoundTripStatus == <<StatusCreated, StatusDispatched, StatusDelivered>>
IsRoundTrip(k) ==
    /\ Len(hist[k]) \in 1..3
    /\ status[hist[k][1].txId].id = k
    /\ \A i \in 1..Len(hist[k]) : status[hist[k][i].txId].op = RoundTripOps[i]
RoundTripNext(k) ==
    IF Len(hist[k]) = 1 THEN DispatchOrder(world, txCount + 1, k)
    ELSE DeliverOrder(world, txCount + 1, k)
C16_OrderRoundTrip ==
    \A k \in DOMAIN world :
        IsRoundTrip(k) =>
            /\ \A i \in 1..Len(hist[k]) :
                  /\ hist[k][i].value["docType"] = DocTypeOrder
                  /\ hist[k][i].value["status"] = RoundTripStatus[i]
            /\ Len(hist[k]) < 3 =>
                  /\ RoundTripNext(k).ok
                  /\ DOMAIN RoundTripNext(k).writes = {k}
                  /\ RoundTripNext(k).writes[k]["status"] = RoundTripStatus[Len(hist[k]) + 1]
C16_Witness ==
    \E k \in DOMAIN world :
        /\ IsRoundTrip(k)
        /\ Len(hist[k]) = 2
        /\ world[k]["status"] = StatusDispatched
        /\ DeliverOrder(world, txCount + 1, k).writes[k]["status"] = StatusDelivered

\* C17: DeliverOrder on an existing order whose status is CREATED succeeds
\* and writes the order with status DELIVERED.
C17_DeliverWithoutDispatch ==
    /\ \A t \in Valid :
          (/\ status[t].op = "DeliverOrder"
           /\ Before(t, status[t].id)["docType"] = DocTypeOrder
           /\ Before(t, status[t].id)["status"] = StatusCreated) =>
              WrittenBy(t, status[t].id)["status"] = StatusDelivered
    /\ \A k \in DOMAIN world :
          (world[k]["docType"] = DocTypeOrder /\ world[k]["status"] = StatusCreated) =>
              LET r == DeliverOrder(world, txCount + 1, k) IN
              /\ r.ok
              /\ DOMAIN r.writes = {k}
              /\ r.writes[k]["status"] = StatusDelivered
C17_Witness ==
    \E t \in Valid :
        /\ status[t].op = "DeliverOrder"
        /\ Before(t, status[t].id)["docType"] = DocTypeOrder
        /\ Before(t, status[t].id)["status"] = StatusCreated
        /\ world[status[t].id]["status"] = StatusDelivered
        /\ world[status[t].id]["dispatchedAt"] = 0

\* C18: every committed DispatchOrder and DeliverOrder was applied to an
\* entity tagged order, and every committed DistributeShipment to an entity
\* tagged shipment, so none of them rewrote a strip, box or carton.
C18_StatusOpsCheckKind ==
    \A t \in Valid :
        /\ status[t].op \in {"DispatchOrder", "DeliverOrder"} =>
              Before(t, status[t].id)["docType"] = DocTypeOrder
        /\ status[t].op = "DistributeShipment" =>
              Before(t, status[t].id)["docType"] = DocTypeShipment

\* C19: for every committed seal of parent P from child list C, in the
\* current state ScanBarcode of each child of C reports P as its parent, and
\* ScanBarcode of P returns as children the entities of C in the given order.
IdsOf(docs) == [i \in 1..Len(docs) |-> docs[i]["id"]]
C19_ScanReflectsSealing ==
    \A t \in Valid :
        status[t].op \in SealOps =>
            /\ ScanBarcode(world, status[t].id).ok
            /\ IdsOf(ScanBarcode(world, status[t].id).children) = status[t].ids
            /\ \A c \in Range(status[t].ids) :
                  /\ ScanBarcode(world, c).parent # Nil
                  /\ ScanBarcode(world, c).parent["id"] = status[t].id

\* C20: ScanBarcode of a strip returns as parent, grandparent and root the
\* entities reached by following boxId, then cartonId, then shipmentId, up to
\* the first empty one; a strip that no seal has listed has none; there is
\* never a grandparent without a parent nor a root without a grandparent; and
\* right after SealBox(B, [A, ...]) and then SealCarton(C, [B]) the ancestors
\* of strip A are B and C and no more.
PointerFields == <<"boxId", "cartonId", "shipmentId">>
RECURSIVE Chain(_, _, _)
Chain(w, doc, n) ==
    IF n > Len(PointerFields) THEN <<>>
    ELSE LET p == Field(doc, PointerFields[n]) IN
         IF p = "" \/ p \notin DOMAIN w THEN <<>>
         ELSE <<p>> \o Chain(w, w[p], n + 1)
Ancestors(r) == SelectSeq(<<r.parent, r.grandParent, r.root>>, LAMBDA a : a # Nil)
NeverSealed(k) ==
    \A t \in Valid : status[t].op \in SealOps => k \notin Range(status[t].ids)
StripChain ==
    \A k \in DOMAIN world :
        world[k]["docType"] = DocTypeStrip =>
            LET r == ScanBarcode(world, k) IN
            /\ r.ok /\ r.itemType = DocTypeStrip
            /\ IdsOf(Ancestors(r)) = Chain(world, world[k], 1)
            /\ r.parent = Nil => r.grandParent = Nil
            /\ r.grandParent = Nil => r.root = Nil
            /\ NeverSealed(k) => Ancestors(r) = <<>>
\* the last two transactions were SealBox(B, [A, ...]) and SealCarton(C, [B])
BoxThenCarton(A, B, C) ==
    /\ txCount >= 2 /\ {txCount - 1, txCount} \subseteq Valid
    /\ status[txCount - 1].op = "SealBox" /\ status[txCount - 1].id = B
    /\ Len(status[txCount - 1].ids) >= 1 /\ status[txCount - 1].ids[1] = A
    /\ Before(txCount - 1, A)["docType"] = DocTypeStrip
    /\ status[txCount].op = "SealCarton" /\ status[txCount].id = C
    /\ status[txCount].ids = <<B>>
Scenario ==
    \A A, B, C \in DOMAIN world :
        BoxThenCarton(A, B, C) => IdsOf(Ancestors(ScanBarcode(world, A))) = <<B, C>>
C20_StripAncestors == StripChain /\ Scenario
C20_Witness ==
    \E A, B, C \in DOMAIN world :
        /\ BoxThenCarton(A, B, C)
        /\ ScanBarcode(world, A).parent["id"] = B
        /\ ScanBarcode(world, A).grandParent["id"] = C
        /\ ScanBarcode(world, A).root = Nil

\* ---------------------------------------------------------------- C21
\* C21: trace_from_history(k) is not found exactly when the history of k is
\* empty or holds deletions only; otherwise the current value of the
\* searched item is the newest entry that carries a value, and the history
\* returned lists every entry of k, newest first.
Valued(k) == {i \in 1..Len(hist[k]) : ~hist[k][i].isDelete}
Newest(S) == CHOOSE i \in S : \A j \in S : j <= i
C21_HistoryLatest ==
    reply.op = "GetFullTraceFromBlockchain" =>
        LET k == reply.id
            r == reply.result
            n == Len(hist[k])
        IN  /\ r.ok <=> Valued(k) # {}
            /\ r.ok =>
                /\ r.searchedItem.itemId = k
                /\ r.searchedItem.current = hist[k][Newest(Valued(k))].value
                /\ Len(r.searchedItem.history) = n
                /\ \A i \in 1..n :
                      /\ r.searchedItem.history[i].txId = hist[k][n + 1 - i].txId
                      /\ r.searchedItem.history[i].isDelete = hist[k][n + 1 - i].isDelete
\* the trace of a key that was written and then deleted: the newest entry is
\* a deletion and the value comes from the entry before it
C21_Witness ==
    /\ reply.op = "GetFullTraceFromBlockchain"
    /\ Len(hist[reply.id]) = 2
    /\ hist[reply.id][2].isDelete /\ ~hist[reply.id][1].isDelete
    /\ reply.result.ok
    /\ reply.result.searchedItem.current = hist[reply.id][1].value

\* ---------------------------------------------------------------- C22
\* C22: the descendants that trace_from_history returns for a carton, a
\* shipment or an order are its whole subtree: every listed child in list
\* order, each followed by its own subtree (boxes by their strips, cartons
\* by their boxes and strips, shipments by their cartons, boxes and strips);
\* every entity of the subtree appears exactly once and nothing else appears.
LevelFields == <<"itemIds", "cartons", "boxes", "strips">>
LevelOf(docType) ==
    CASE docType = DocTypeOrder -> 1 [] docType = DocTypeShipment -> 2
      [] docType = DocTypeCarton -> 3 [] docType = DocTypeBox -> 4 [] OTHER -> 5
\* the ids listed from place i on, each followed by what it lists below
RECURSIVE Subtree(_, _, _, _)
Subtree(w, ids, level, i) ==
    IF i > Len(ids) THEN <<>>
    ELSE (IF ids[i] \in DOMAIN w
          THEN <<ids[i]>> \o (IF level <= Len(LevelFields)
                              THEN Subtree(w, Field(w[ids[i]], LevelFields[level]),
                                           level + 1, 1)
                              ELSE <<>>)
          ELSE <<>>)
         \o Subtree(w, ids, level, i + 1)
ItemIds(items) == [i \in 1..Len(items) |-> items[i].itemId]
Once(ids) == \A i, j \in 1..Len(ids) : ids[i] = ids[j] => i = j
SubtreeInOrder ==
    \A k \in DOMAIN world :
        world[k]["docType"] \in {DocTypeCarton, DocTypeShipment, DocTypeOrder} =>
            LET r == GetFullTraceFromBlockchain(hist, k)
                level == LevelOf(world[k]["docType"])
            IN  /\ r.ok
                /\ ItemIds(r.children)
                      = Subtree(world, Field(world[k], LevelFields[level]), level + 1, 1)
SubtreeOnce ==
    \A k \in DOMAIN world :
        world[k]["docType"] \in {DocTypeCarton, DocTypeShipment, DocTypeOrder} =>
            Once(ItemIds(GetFullTraceFromBlockchain(hist, k).children))
C22_FullSubtree == SubtreeInOrder /\ SubtreeOnce

\* ---------------------------------------------------------------- C23
\* C23: scan of an order returns as descendants exactly the shipments that
\* its itemIds name, in that order, and no carton, box or strip, while
\* trace_from_history of the same order in the same state returns each of
\* these shipments followed by its whole subtree.
Orders == {k \in DOMAIN world : world[k]["docType"] = DocTypeOrder}
C23_ScanOrderOneLevel ==
    \A o \in Orders :
        LET scan == ScanBarcode(world, o)
            trace == GetFullTraceFromBlockchain(hist, o)
            itemIds == Field(world[o], "itemIds")
        IN  /\ scan.ok /\ trace.ok
            /\ IdsOf(scan.children) = itemIds
            /\ \A i \in 1..Len(scan.children) :
                  scan.children[i]["docType"] = DocTypeShipment
            /\ ItemIds(trace.children) = Subtree(world, itemIds, 2, 1)
\* an order of one shipment that holds a carton: the scan stops at the
\* shipment, the trace goes on to the carton
C23_Witness ==
    \E o \in Orders :
        /\ Len(ScanBarcode(world, o).children) = 1
        /\ Len(GetFullTraceFromBlockchain(hist, o).children) >= 2
        /\ GetFullTraceFromBlockchain(hist, o).children[2].itemType = DocTypeCarton

\* ---------------------------------------------------------------- C24
\* C24: in every state after a transaction t created an entity E, the lookup
\* by creation transaction of t resolves to E itself, never to a child that
\* t modified, and no two entities carry the same creationTxId.
ResolvesTo(tx, id) ==
    LET r == GetTraceByTxHash(world, hist, tx) IN
    /\ r.ok
    /\ r.transactionInfo.itemId = id
    /\ r.transactionInfo.value = world[id]
    /\ r.traceability.searchedItem.itemId = id
C24_LookupByCreationTx ==
    /\ \A t \in Valid : status[t].op \in CreateOps => ResolvesTo(t, status[t].id)
    /\ \A a, b \in DOMAIN world :
          world[a]["creationTxId"] = world[b]["creationTxId"] => a = b
\* a seal created a parent and wrote its child in the same transaction,
\* another transaction followed, and the lookup resolves to the parent
C24_Witness ==
    \E t \in Valid :
        /\ status[t].op \in SealOps /\ status[t].ids # <<>>
        /\ Wrote(t, status[t].ids[1])
        /\ t < txCount
        /\ ResolvesTo(t, status[t].id)

\* ---------------------------------------------------------------- C25
\* the ledger as it is, and as one more accepted CreateOrder over one of its
\* shipments leaves it
Shipments == {k \in DOMAIN world : world[k]["docType"] = DocTypeShipment}
Ordered(o, s) ==
    LET res == CreateOrder(world, txCount + 1, o, Parsed(<<s>>), "alice",
                           "Org1MSP", "bob", "Org1MSP")
    IN  [world |-> WorldAfter(world, res.writes),
         hist |-> HistAfter(hist, txCount + 1, res.writes)]
Ledgers ==
    {[world |-> world, hist |-> hist]}
        \cup {Ordered(o, s) : o \in Unused, s \in Shipments}
BoxesOf(L) == {k \in DOMAIN L.world : L.world[k]["docType"] = DocTypeBox}
TraceOf(L, B) == GetTraceByTxHash(L.world, L.hist, L.world[B]["creationTxId"])
\* C25 (as stated): for every box B, the trace that the lookup by B's
\* creationTxId resolves names B as the searched item and has the same
\* ancestors and the same descendants, as ids in the same order, as scan(B).
SameTrace(L, B) ==
    LET r == TraceOf(L, B)
        scan == ScanBarcode(L.world, B)
    IN  /\ r.ok /\ scan.ok
        /\ r.traceability.searchedItem.itemId = B
        /\ ItemIds(r.traceability.children) = IdsOf(scan.children)
        /\ ItemIds(r.traceability.parents) = IdsOf(Ancestors(scan))
OrderAbove(scan) ==
    IF scan.grandParent # Nil /\ scan.grandParent["orderId"] # ""
    THEN <<scan.grandParent["orderId"]>> ELSE <<>>
TraceExtendsScan(L, B) ==
    LET r == TraceOf(L, B)
        scan == ScanBarcode(L.world, B)
    IN  /\ r.ok /\ scan.ok
        /\ r.traceability.searchedItem.itemId = B
        /\ ItemIds(r.traceability.children) = IdsOf(scan.children)
        /\ scan.root = Nil
        /\ ItemIds(r.traceability.parents)
              = IdsOf(Ancestors(scan)) \o OrderAbove(scan)
Creates(t) == \E k \in DOMAIN world : world[k]["creationTxId"] = t
WrittenIn(t) == {k \in DOMAIN world : \E i \in 1..Len(hist[k]) : hist[k][i].txId = t}
C26_LookupFallback ==
    \A t \in 1..(txCount + 1) :
        ~Creates(t) =>
            LET r == GetTraceByTxHash(world, hist, t) IN
            /\ r.ok <=> WrittenIn(t) # {}
            /\ r.ok =>
                /\ r.transactionInfo.itemId \in WrittenIn(t)
                /\ r.traceability.searchedItem.itemId = r.transactionInfo.itemId
                /\ r.transactionInfo.txId = t
            /\ ~r.ok => r.traceability = NoTrace
\* a transaction that created nothing wrote an entity that a later
\* transaction wrote again: the lookup finds the entity through its history
C26_Witness ==
    \E t \in Valid :
        /\ ~Creates(t)
        /\ \E k \in WrittenIn(t) :
              /\ hist[k][Len(hist[k])].txId > t
              /\ GetTraceByTxHash(world, hist, t).ok
              /\ GetTraceByTxHash(world, hist, t).transactionInfo.itemId = k

\* ---------------------------------------------------------------- C27
\* C27: scan, trace_from_history and find_by_creation_tx write no key and
\* append no history entry, and a call repeated with the same argument, no
\* write having been committed in between, returns the same result.
ReadOps == {"ScanBarcode", "GetFullTraceFromBlockchain", "GetTraceByTxHash"}
ReadStep == reply'.op \in ReadOps
Repeated ==
    /\ reply.op = reply'.op /\ reply.id = reply'.id /\ reply.tx = reply'.tx
    /\ hist' = hist
ReadsArePure ==
    ReadStep =>
        /\ world' = world /\ hist' = hist /\ txCount' = txCount
        /\ Repeated => reply'.result = reply.result
RECURSIVE Nested(_)
Nested(n) == IF n <= 0 THEN 0 ELSE (MaxLen ^ n) + Nested(n - 1)
C28_WalkBounded ==
    reply.op = "GetFullTraceFromBlockchain" /\ reply.result.ok =>
        LET r == reply.result
            level == LevelOf(r.searchedItem.itemType)
        IN  /\ level \in 1..5
            /\ Len(r.parents) <= level - 1
            /\ Len(r.children) <= Nested(5 - level)
\* the trace of an entity whose child list names the entity itself
C28_Witness ==
    /\ reply.op = "GetFullTraceFromBlockchain" /\ reply.result.ok
    /\ \E f \in ListFields :
          /\ f \in DOMAIN reply.result.searchedItem.current
          /\ reply.id \in Range(reply.result.searchedItem.current[f])
    /\ \E i \in 1..Len(reply.result.children) :
          reply.result.children[i].itemId = reply.id

\* C29: a read of a box succeeds whatever its listed ids resolve to, and
\* returns the ones that resolve in list order: ScanBarcode those present in
\* the current state, GetFullTraceFromBlockchain those whose history has a
\* written value, so that a strip deleted after it was written is skipped by
\* the first and returned by the second with its last value. The ancestors
\* are those reached by the parent pointers up to the first one that is empty
\* or does not resolve in the same sense.
Latest(h) ==
    [k \in {x \in DOMAIN h : \E i \in 1..Len(h[x]) : ~h[x][i].isDelete} |->
        getLatestFromBlockchain(h, k).current]
Present(latest, ids) == SelectSeq(ids, LAMBDA k : k \in DOMAIN latest)
HistoryPointerFields == <<"boxId", "cartonId", "shipmentId", "orderId">>
RECURSIVE Walk(_, _, _, _)
Walk(latest, doc, fields, n) ==
    IF n > Len(fields) THEN <<>>
    ELSE LET p == Field(doc, fields[n]) IN
         IF p = "" \/ p \notin DOMAIN latest THEN <<>>
         ELSE <<p>> \o Walk(latest, latest[p], fields, n + 1)
PointerFrom(docType) == 6 - LevelOf(docType)
ScanBestEffort(latest) ==
    reply.op = "ScanBarcode" /\ reply.id \in DOMAIN world =>
        LET r == reply.result
            doc == world[reply.id]
        IN  /\ r.ok
            /\ doc["docType"] = DocTypeBox =>
                  IdsOf(r.children) = Present(latest, Field(doc, "strips"))
            /\ IdsOf(Ancestors(r))
                  = Walk(world, doc, PointerFields, PointerFrom(doc["docType"]))
TraceBestEffort(latest) ==
    reply.op = "GetFullTraceFromBlockchain" /\ reply.id \in DOMAIN Latest(hist) =>
        LET r == reply.result
            doc == Latest(hist)[reply.id]
        IN  /\ r.ok
            /\ doc["docType"] = DocTypeBox =>
                  ItemIds(r.children) = Present(latest, Field(doc, "strips"))
            /\ ItemIds(r.parents)
                  = Walk(Latest(hist), doc, HistoryPointerFields,
                         PointerFrom(doc["docType"]))
\* as first stated: both reads skip the ids that the current state lacks
C29_BothSkipDeleted == ScanBestEffort(world) /\ TraceBestEffort(world)
C29_BestEffort == ScanBestEffort(world) /\ TraceBestEffort(Latest(hist))
\* a box lists a strip that never had a value and one that has: the trace
\* returns the second alone
C29_Witness ==
    /\ reply.op = "GetFullTraceFromBlockchain" /\ reply.result.ok
    /\ reply.result.searchedItem.itemType = DocTypeBox
    /\ \E k \in Range(Field(reply.result.searchedItem.current, "strips")) :
          k \notin DOMAIN Latest(hist)
    /\ Len(reply.result.children) = 1

\* C30: in every reachable state GetAvailableStrips, GetAvailableBoxes and
\* GetAvailableCartons return exactly the strips with an empty boxId, the
\* boxes with an empty cartonId and the cartons with an empty shipmentId; no
\* child of an accepted seal is returned by any of them afterwards, and no
\* returned entity is in the child list of any entity.
Unowned(docType, owner) ==
    {k \in DOMAIN world : world[k]["docType"] = docType /\ Field(world[k], owner) = ""}
Listed(items) == Range(IdsOf(items))
Available ==
    Listed(GetAvailableStrips(world)) \cup Listed(GetAvailableBoxes(world))
        \cup Listed(GetAvailableCartons(world))
ListingExact ==
    /\ Listed(GetAvailableStrips(world)) = Unowned(DocTypeStrip, "boxId")
    /\ Listed(GetAvailableBoxes(world)) = Unowned(DocTypeBox, "cartonId")
    /\ Listed(GetAvailableCartons(world)) = Unowned(DocTypeCarton, "shipmentId")
ListingSound ==
    /\ Listed(GetAvailableStrips(world)) \subseteq Unowned(DocTypeStrip, "boxId")
    /\ Listed(GetAvailableBoxes(world)) \subseteq Unowned(DocTypeBox, "cartonId")
    /\ Listed(GetAvailableCartons(world)) \subseteq Unowned(DocTypeCarton, "shipmentId")
SealedNotAvailable ==
    \A t \in Valid :
        status[t].op \in SealOps => Range(status[t].ids) \cap Available = {}
AvailableUnlisted ==
    \A k \in Available : \A p \in DOMAIN world : \A f \in ListFields :
        k \notin Range(Field(world[p], f))
C30_ListingsTrackSealing == ListingExact /\ SealedNotAvailable /\ AvailableUnlisted

\* C31: in every reachable state GetAvailableShipments returns exactly the
\* entities tagged shipment whose status is CREATED, which are the shipments
\* that no accepted call has written since the SealShipment that created
\* them: a shipment leaves the listing when it is distributed and also when
\* it is put in an order.
Distributed(k) ==
    \E t \in Valid : status[t].op = "DistributeShipment" /\ status[t].id = k
KindAbove(docType) ==
    CASE docType = DocTypeStrip -> DocTypeBox
      [] docType = DocTypeBox -> DocTypeCarton
      [] docType = DocTypeCarton -> DocTypeShipment
      [] OTHER -> "none"
KindBelow(docType) ==
    CASE docType = DocTypeBox -> DocTypeStrip
      [] docType = DocTypeCarton -> DocTypeBox
      [] docType = DocTypeShipment -> DocTypeCarton
      [] OTHER -> "none"
PointsUp ==
    \A c \in DOMAIN world :
        (KindAbove(world[c]["docType"]) # "none" /\ Owner(world[c]) # "") =>
            LET p == Owner(world[c]) IN
            /\ p \in DOMAIN world
            /\ world[p]["docType"] = KindAbove(world[c]["docType"])
            /\ c \in Range(Children(world[p]))
PointsDown ==
    \A p \in DOMAIN world :
        KindBelow(world[p]["docType"]) # "none" =>
            \A c \in Range(Children(world[p])) :
                /\ c \in DOMAIN world
                /\ world[c]["docType"] = KindBelow(world[p]["docType"])
                /\ Owner(world[c]) = p
C32_PointerConsistency == PointsUp /\ PointsDown
\* the ledgers on which every seal and status operation was given entities
\* of the kind it expects
RightKinds == C6_ChildKindChecked /\ C18_StatusOpsCheckKind
PointersOfRightKinds == RightKinds => C32_PointerConsistency

\* C33: in every committed state no id occurs twice in the child list of a
\* box, carton, shipment or order.
C33_NoDuplicateMembership ==
    \A p \in DOMAIN world : Once(Children(world[p]))

\* C34: in every reachable state each shipment is in the itemIds of at most
\* one order, the orderId of a shipment never changes once it is set, and a
\* shipment is in the itemIds of an order exactly when its orderId is that
\* order.
InOneOrder ==
    \A o1, o2 \in Orders :
        o1 # o2 => Range(Field(world[o1], "itemIds"))
                       \cap Range(Field(world[o2], "itemIds")) = {}
OrderIdKept ==
    \A s \in Shipments : \A i, j \in 1..Len(hist[s]) :
        (i < j /\ Field(hist[s][i].value, "orderId") # "") =>
            Field(hist[s][j].value, "orderId") = Field(hist[s][i].value, "orderId")
OrderIdMatches ==
    \A o \in Orders : \A s \in Shipments :
        s \in Range(Field(world[o], "itemIds")) <=> Field(world[s], "orderId") = o
C34_OneOrderPerShipment == InOneOrder /\ OrderIdKept /\ OrderIdMatches

\* C35: in every committed state a strip, box or carton has status SEALED
\* when its owning-parent field is set and status CREATED when it is empty,
\* and never another status.
C35_StatusMatchesOwner ==
    \A k \in DOMAIN world :
        world[k]["docType"] \in {DocTypeStrip, DocTypeBox, DocTypeCarton} =>
            Field(world[k], "status")
                = (IF Owner(world[k]) # "" THEN StatusSealed ELSE StatusCreated)
StatusOfRightKinds == RightKinds => C35_StatusMatchesOwner

\* C36: in every reachable state the latest value that the history walk
\* derives for a key is the value of the key in the current state (and the
\* walk finds nothing exactly when the key is absent), and the searched-item
\* record of GetFullTraceFromBlockchain is the item record of ScanBarcode.
LatestIsCurrent ==
    \A k \in Keys :
        LET r == getLatestFromBlockchain(hist, k) IN
        /\ r.ok <=> k \in DOMAIN world
        /\ r.ok => r.current = world[k]
SameItem ==
    \A k \in DOMAIN world :
        GetFullTraceFromBlockchain(hist, k).searchedItem.current
            = ScanBarcode(world, k).item
C36_HistoryAgreesWithState == LatestIsCurrent /\ SameItem
SameItemOfRightKinds == RightKinds => SameItem

\* C37: the docType stored under a key is in every later record the docType
\* of the record that created the key, whichever operation wrote it; so the
\* counts of GetStatistics add up to the number of keys, and no committed
\* transaction makes any of them smaller.
KindKept ==
    \A k \in DOMAIN world :
        /\ world[k]["docType"] = hist[k][1].value["docType"]
        /\ \A i \in 1..Len(hist[k]) :
              hist[k][i].value["docType"] = hist[k][1].value["docType"]
RECURSIVE Sum(_, _)
Sum(f, S) ==
    IF S = {} THEN 0
    ELSE LET x == CHOOSE y \in S : TRUE IN f[x] + Sum(f, S \ {x})
CountsAddUp ==
    Sum(GetStatistics(world), DOMAIN GetStatistics(world)) = Cardinality(DOMAIN world)
CountsGrow ==
    \A key \in DOMAIN GetStatistics(world) :
        GetStatistics(world')[key] >= GetStatistics(world)[key]
C37_KindNeverChanges == [](KindKept /\ CountsAddUp) /\ [][CountsGrow]_vars
\* a strip was passed to DistributeShipment, which rewrote it in the shape
\* of a shipment: it is still counted as a strip
C37_Witness ==
    \E t \in Valid :
        /\ status[t].op = "DistributeShipment"
        /\ hist[status[t].id][1].value["docType"] = DocTypeStrip
        /\ world[status[t].id]["status"] = StatusShipped
        /\ GetStatistics(world)["strips"] >= 1
        /\ GetStatistics(world)["shipments"] = 0

\* C38: of two creating transactions for the same new id that were simulated
\* against the same committed state, in which the id was absent, at most one
\* commits; the other writes neither the id nor any of its children, so no
\* child it listed names the id as its parent while the committed parent's
\* list omits it.
OwnerFields == {"boxId", "cartonId", "shipmentId", "orderId"}
SameNewId(t1, t2) ==
    /\ t1 # t2
    /\ status[t1].op \in CreateOps /\ status[t2].op \in CreateOps
    /\ status[t1].id = status[t2].id
    /\ status[t1].height = status[t2].height
    /\ \A t \in {t1, t2} :
          status[t].id \in DOMAIN status[t].reads => status[t].reads[status[t].id] = 0
C38_OneCreationCommits ==
    \A t1, t2 \in DOMAIN status :
        SameNewId(t1, t2) /\ t1 \in Valid =>
            /\ t2 \notin Valid
            /\ ~Wrote(t2, status[t2].id)
            /\ \A c \in Range(status[t2].ids) : ~Wrote(t2, c)
            /\ \A c \in Range(status[t1].ids) :
                  c \in Range(Children(WrittenBy(t1, status[t1].id)))
            /\ \A c \in Range(status[t2].ids) \ Range(status[t1].ids) :
                  \A f \in OwnerFields : Field(world[c], f) # status[t1].id
\* two seals of the same new parent with different children: the first
\* submitted committed, the other was invalidated and its child is unsealed
C38_Witness ==
    \E t1, t2 \in DOMAIN status :
        /\ SameNewId(t1, t2)
        /\ status[t1].op \in SealOps /\ status[t2].op \in SealOps
        /\ status[t1].code = "VALID"
        /\ status[t2].code = "MVCC_READ_CONFLICT"
        /\ Range(status[t1].ids) \cap Range(status[t2].ids) = {}
        /\ \E c \in Range(status[t2].ids) :
              \A f \in OwnerFields : Field(world[c], f) = ""

\* C39: a committed DistributeShipment on a shipment wrote that key only and
\* changed nothing but status, distributor, distributedAt and updatedAt; a
\* committed DispatchOrder or DeliverOrder on an order wrote that key only
\* and changed nothing but status, its own timestamp and updatedAt. Every
\* field of the kind keeps its value, and a document that had the shape of
\* its kind keeps every other field as it was.
StatusOps == {"DistributeShipment", "DispatchOrder", "DeliverOrder"}
StatusOpFields(op) ==
    IF op = "DistributeShipment" THEN Shipment ELSE Order
StatusOpDocType(op) ==
    IF op = "DistributeShipment" THEN DocTypeShipment ELSE DocTypeOrder
StatusOpChanges(op) ==
    CASE op = "DistributeShipment" ->
            {"status", "distributor", "distributedAt", "updatedAt"}
      [] op = "DispatchOrder" -> {"status", "dispatchedAt", "updatedAt"}
      [] op = "DeliverOrder" -> {"status", "deliveredAt", "updatedAt"}
OnItsKind(t) ==
    /\ status[t].op \in StatusOps
    /\ HadBefore(t, status[t].id)
    /\ Before(t, status[t].id)["docType"] = StatusOpDocType(status[t].op)
C39_StatusOpsFrame ==
    \A t \in Valid :
        OnItsKind(t) =>
            LET k == status[t].id
                op == status[t].op
                old == Before(t, k)
                new == WrittenBy(t, k)
            IN  /\ \A other \in Keys \ {k} : ~Wrote(t, other)
                /\ \A f \in StatusOpFields(op) \ StatusOpChanges(op) :
                      Field(new, f) = Field(old, f)
                /\ DOMAIN old = StatusOpFields(op) =>
                      /\ DOMAIN new = DOMAIN old
                      /\ \A f \in DOMAIN old \ StatusOpChanges(op) : new[f] = old[f]
\* a shipment in an order was distributed: it kept its orderId and the
\* order was not written
C39_Witness ==
    \E t \in Valid :
        /\ OnItsKind(t) /\ status[t].op = "DistributeShipment"
        /\ Field(Before(t, status[t].id), "orderId") # ""
        /\ world[status[t].id]["orderId"] = Field(Before(t, status[t].id), "orderId")
        /\ world[status[t].id]["status"] = StatusShipped

\* C40: on a ledger whose records have no creationTxId, GetTraceByTxHash of
\* a committed SealBox, SealCarton, SealShipment or CreateOrder transaction
\* that claimed children resolves the trace of the container the transaction
\* created, not of a child it rewrote.
Legacy(doc) == [f \in DOMAIN doc \ {"creationTxId"} |-> doc[f]]
LegacyWorld == [k \in DOMAIN world |-> Legacy(world[k])]
LegacyHist ==
    [k \in DOMAIN hist |->
        [i \in 1..Len(hist[k]) |-> [hist[k][i] EXCEPT !.value = Legacy(@)]]]
ResolvesContainer(t) ==
    LET r == GetTraceByTxHash(LegacyWorld, LegacyHist, t) IN
    /\ ~GetItemByCreationTxHash(LegacyWorld, t).ok
    /\ r.ok
    /\ r.transactionInfo.itemId = status[t].id
    /\ r.traceability.searchedItem.itemId = status[t].id
Claimed(t, ops) == t \in Valid /\ status[t].op \in ops /\ status[t].ids # <<>>
C40_FallbackPrefersParent ==
    \A t \in DOMAIN status :
        Claimed(t, SealOps \cup {"CreateOrder"}) => ResolvesContainer(t)
SealsPreferParent ==
    RightKinds => \A t \in DOMAIN status : Claimed(t, SealOps) => ResolvesContainer(t)
OrdersResolveShipment ==
    \A t \in DOMAIN status :
        Claimed(t, {"CreateOrder"}) =>
            LET r == GetTraceByTxHash(LegacyWorld, LegacyHist, t) IN
            r.ok /\ r.transactionInfo.itemId \in Range(status[t].ids)

====
